---- MODULE Spec2Model ----
(***************************************************************************)
(* Identity resolution of rest_template: the users table, the kv cache,    *)
(* and the request handlers of src/user.js that read and write them.       *)
(* Every `await` on the database is one atomic step of a request; the      *)
(* synchronous code between two awaits belongs to the step it follows.     *)
(* Date.now() is now * 1000 + ms; the identity routes run at ms = 0 and    *)
(* keep their times in seconds (Date.now() / 1000).                        *)
(***************************************************************************)
EXTENDS Integers, Sequences, FiniteSets, TLC

\* ------------------------------------------------------------- bounds
NReq == 2
MaxTicks == 2

\* ---------------------------------------------------- program constants
UidStart == 1000
ThirtyDaysSec == 2592000
PbkdfIterations == 10000
\* 3600 * 24 * 30 milliseconds, in seconds
VerifyOffsetSec == 2592

\* ------------------------------------------------------------- values
Reqs == 1..NReq

\* JS undefined in a string position, and the empty string: both falsy
Absent == "<undefined>"
Falsy(s) == s \in {Absent, ""}

SentinelEmail == "non-exist@non-exist.ooo"
Emails == {"a@b.com", SentinelEmail}
Passwords == {"pw1", "pw2"}
RandomPasswords == {"rnd16"}
Salts == {<<"s", "1">>}
NoPass == <<>>
NoUid == 0
Keys == {"ott1"}
TTLs == {1}

\* optional integer argument: <<>> is undefined, <<n>> is n
None == <<>>
Some(x) == <<x>>
\* frm = 0 as a parameter default, and frm || 0
OrZero(frm) == IF frm = None THEN 0 ELSE frm[1]

\* request bodies of POST /user/register
RegisterInputs ==
  { [email |-> "", password |-> "pw1", frm |-> None],
    [email |-> "a@b.com", password |-> Absent, frm |-> None],
    [email |-> "a@b.com", password |-> Absent, frm |-> Some(0)],
    [email |-> "a@b.com", password |-> Absent, frm |-> Some(2)],
    [email |-> "a@b.com", password |-> "pw1", frm |-> None],
    [email |-> SentinelEmail, password |-> "pw1", frm |-> Some(2)] }

\* arguments of ensureUser at its call sites other than handleOTT
EnsureInputs ==
  { [email |-> "a@b.com", uid |-> NoUid, frm |-> Some(3)],
    [email |-> "a@b.com", uid |-> NoUid, frm |-> None],
    [email |-> "a@b.com", uid |-> UidStart, frm |-> None],
    [email |-> SentinelEmail, uid |-> UidStart, frm |-> Some(3)],
    [email |-> Absent, uid |-> UidStart, frm |-> Some(3)],
    [email |-> Absent, uid |-> NoUid, frm |-> Some(3)] }

\* request bodies of POST /user/login without an OTT
LoginInputs ==
  { [email |-> "a@b.com", password |-> "pw1"],
    [email |-> "a@b.com", password |-> "pw2"],
    [email |-> "a@b.com", password |-> Absent],
    [email |-> Absent, password |-> "pw1"] }

\* JSON texts the identity broker stores under an OTT; "null" parses to null
NullJson == [type |-> "null", email |-> Absent, picture |-> Absent, avatar_url |-> Absent]
\* a stored value v that is the empty string
EmptyText == [type |-> "", email |-> Absent, picture |-> Absent, avatar_url |-> Absent]
Payloads ==
  { [type |-> "google", email |-> "a@b.com", picture |-> "pic", avatar_url |-> Absent],
    [type |-> "maxthon", email |-> Absent, picture |-> Absent, avatar_url |-> "ava"],
    [type |-> "email", email |-> "a@b.com", picture |-> Absent, avatar_url |-> Absent],
    [type |-> "github", email |-> "a@b.com", picture |-> Absent, avatar_url |-> Absent],
    NullJson, EmptyText }

NoEntry == [present |-> FALSE, value |-> NullJson, expire |-> 0]

\* what getKV returned: nothing yet, null, or the stored text
NotGot == [kind |-> "pending", value |-> NullJson]
GotNull == [kind |-> "null", value |-> NullJson]
GotValue(v) == [kind |-> "value", value |-> v]

\* ---------------------------------------------------------------- strings
\* the strings of a payment event are sequences of characters; undefined in
\* such a position is the one-element sequence <<Absent>>
NoStr == <<Absent>>
FalsyStr(s) == s = NoStr \/ s = <<>>

Upper == <<"A", "B", "C", "D", "E", "F", "G", "H", "I", "J", "K", "L", "M", "N", "O", "P", "Q", "R", "S", "T", "U", "V", "W", "X", "Y", "Z">>
Lower == <<"a", "b", "c", "d", "e", "f", "g", "h", "i", "j", "k", "l", "m", "n", "o", "p", "q", "r", "s", "t", "u", "v", "w", "x", "y", "z">>
Digits == <<"0", "1", "2", "3", "4", "5", "6", "7", "8", "9">>

\* String.prototype.toLowerCase
toLowerCase(s) ==
  [i \in 1..Len(s) |->
     IF \E k \in 1..Len(Upper) : Upper[k] = s[i]
     THEN Lower[CHOOSE k \in 1..Len(Upper) : Upper[k] = s[i]]
     ELSE s[i]]

\* String.prototype.indexOf: the first position (from 0) of sub in s, or -1
indexOf(s, sub) ==
  LET hits == {i \in 1..(Len(s) - Len(sub) + 1) : SubSeq(s, i, i + Len(sub) - 1) = sub}
  IN IF hits = {} THEN -1 ELSE (CHOOSE i \in hits : \A j \in hits : i <= j) - 1

\* String.prototype.includes
includes(s, sub) == indexOf(s, sub) > -1

\* String.prototype.split on a one-character separator
RECURSIVE split(_, _)
split(s, sep) ==
  LET i == indexOf(s, <<sep>>)
  IN IF i = -1 THEN <<s>>
     ELSE <<SubSeq(s, 1, i)>> \o split(SubSeq(s, i + 2, Len(s)), sep)

\* String.prototype.trim (blanks only)
RECURSIVE trim(_)
trim(s) ==
  IF s = <<>> THEN s
  ELSE IF s[1] = " " THEN trim(Tail(s))
  ELSE IF s[Len(s)] = " " THEN trim(SubSeq(s, 1, Len(s) - 1))
  ELSE s

\* +(s) || 0 for a string of decimal digits; every other string the model
\* uses in this position (undefined, text) converts to NaN or 0, hence 0
RECURSIVE DigitsValue(_)
DigitsValue(s) ==
  IF s = <<>> THEN 0
  ELSE 10 * DigitsValue(SubSeq(s, 1, Len(s) - 1))
       + (CHOOSE k \in 1..Len(Digits) : Digits[k] = s[Len(s)]) - 1
NumberOrZero(s) ==
  IF s # <<>> /\ \A i \in 1..Len(s) : \E k \in 1..Len(Digits) : Digits[k] = s[i]
  THEN DigitsValue(s) ELSE 0

\* ------------------------------------------------------- payment events
\* the meta of an order_paid event, which becomes info.pay: the fields the
\* entitlement code reads (uid, id, name, product, amount, endTime, price)
Meta(uid, id, name, product, amount, endTime, price) ==
  [present |-> TRUE, uid |-> uid, id |-> id, name |-> name, product |-> product,
   amount |-> amount, endTime |-> endTime, price |-> price]
\* info without a pay key
NoPay == [present |-> FALSE, uid |-> NoUid, id |-> Absent, name |-> NoStr,
          product |-> NoStr, amount |-> None, endTime |-> 0, price |-> NoStr]

\* info = {}: no avatar, no pay, no delta
NoInfo == [avatar |-> Absent, pay |-> NoPay, delta |-> None]

VARIABLES users, nextUid, kv, issued, now, req, payments, ms
vars == <<users, nextUid, kv, issued, now, req, payments, ms>>

\* ------------------------------------------------------- credential store
\* crypto.pbkdf2Sync(...).toString('hex'): a colon-free text that differs for
\* every (password, salt) pair
HexText(salt) == [i \in 1..Len(salt) |-> IF salt[i] = ":" THEN "3a" ELSE salt[i]]
Pbkdf2(password, salt, iterations) == <<"k", password>> \o HexText(salt)

\* hashPassword's salt: the one supplied, or random bytes when it is falsy
NoSalt == <<>>
saltOrRandom(OTT, random) == IF OTT = NoSalt THEN random ELSE OTT

hashPassword(password, salt) == salt \o <<":">> \o Pbkdf2(password, salt, PbkdfIterations)

\* index of the first ":" in s at or after i, Len(s)+1 when there is none
RECURSIVE ColonFrom(_, _)
ColonFrom(s, i) == IF i > Len(s) THEN Len(s) + 1
                   ELSE IF s[i] = ":" THEN i ELSE ColonFrom(s, i + 1)

\* hashedPassword.split(':') : its first two parts; the second is undefined
\* (here hasKey = FALSE) when the text holds no ":"
SplitPass(s) ==
  LET c1 == ColonFrom(s, 1)
      c2 == ColonFrom(s, c1 + 1)
  IN [salt |-> SubSeq(s, 1, c1 - 1),
      hasKey |-> c1 <= Len(s),
      key |-> IF c1 <= Len(s) THEN SubSeq(s, c1 + 1, c2 - 1) ELSE <<>>]

\* a stored value that is not a string (no split method)
NotString == <<"<not-a-string>">>

\* verifyPassword without its try/catch
verifyOutcomeNoCatch(password, hashedPassword) ==
  IF password = Absent \/ hashedPassword \in {NoPass, NotString}
  THEN "throw"
  ELSE LET p == SplitPass(hashedPassword)
       IN IF p.hasKey /\ p.key = Pbkdf2(password, p.salt, PbkdfIterations)
          THEN "true" ELSE "false"

\* what a call of verifyPassword does: "true", "false" or "throw"
verifyOutcome(password, hashedPassword) ==
  IF password = Absent \/ hashedPassword \in {NoPass, NotString}
  THEN "false"   \* pbkdf2Sync / split throws, the catch returns false
  ELSE LET p == SplitPass(hashedPassword)
       IN IF p.hasKey /\ p.key = Pbkdf2(password, p.salt, PbkdfIterations)
          THEN "true" ELSE "false"

verifyPassword(password, hashedPassword) == verifyOutcome(password, hashedPassword) = "true"

\* ------------------------------------------------------------ users table
\* the trigger BEFORE UPDATE ON users: NEW.updated_at = CURRENT_TIMESTAMP
update_updated_at_column(new) == [new EXCEPT !.updated_at = now]

\* the rows with an email among the rows that are not soft-deleted
RowWithEmailActive(tbl, email) == {u \in tbl : u.email = email /\ u.status = 1}
RowWithEmail(tbl, email) == {u \in tbl : u.email = email}
RowWithUid(tbl, uid) == {u \in tbl : u.uid = uid}

\* what a handler returns: a user object, null, {} or a thrown error
NoUser == [uid |-> NoUid, email |-> Absent, pass |-> NoPass, frm |-> 0,
           info |-> NoInfo, status |-> 0, level |-> 0, updated_at |-> 0]
Ret(kind, user, err) == [kind |-> kind, user |-> user, err |-> err]
RetNull == Ret("null", NoUser, "")
RetEmpty == Ret("empty", NoUser, "")
Throw(msg) == Ret("throw", NoUser, msg)
Pending == Ret("pending", NoUser, "")

\* const { pass, ...userInfo } = row
StripPass(row) == [row EXCEPT !.pass = NoPass]
RetUser(row) == Ret("user", row, "")

NoToken == [minted |-> FALSE, hasUid |-> FALSE, uid |-> NoUid, create |-> 0, expire |-> 0]

\* infoUpdates of updateUserInfo: the keys it carries
NoUpdates == [avatar |-> None, pay |-> None, delta |-> None]

\* updateData / updateFields of updateUser: the keys carried (level stands
\* for every key outside allowedFields)
NoFields == [email |-> None, frm |-> None, info |-> None, status |-> None, level |-> None]

\* no transaction run: the client (none, out of the pool, released), the
\* calls of client.release, the last statement sent, the error caught
NoTx == [client |-> "none", releases |-> 0, last |-> "", caught |-> ""]

\* no plan computed
NoPlan == [kind |-> "none", name |-> "", hasEnd |-> FALSE, endTime |-> 0]

\* a request: its route (op), its position (pc), the arguments it was called
\* with (email, password, frm, uid, OTT), the locals of the handler it is in
\* (cEmail, finalPassword, cFrm, cInfo, res, hash), what the handler returned
\* (ret), what the route answered (resp, token), and the requests that had
\* already finished when it started (prior)
IdleReq == [op |-> "none", pc |-> "idle", email |-> Absent, password |-> Absent,
            frm |-> None, uid |-> NoUid, OTT |-> "",
            cEmail |-> Absent, finalPassword |-> Absent, cFrm |-> 0, cInfo |-> NoInfo,
            res |-> NoEntry, hash |-> NoPass, ret |-> Pending,
            resp |-> "", token |-> NoToken, prior |-> {}, plan |-> NoPlan,
            meta |-> NoPay, inserted |-> FALSE, delta |-> 0, infoUpdates |-> NoUpdates,
            currentInfo |-> NoInfo, updatedInfo |-> NoInfo, ifNotExists |-> FALSE,
            got |-> NotGot, salt |-> NoSalt, candidate |-> Absent, verified |-> "none",
            updateData |-> NoFields, updateFields |-> NoFields, tx |-> NoTx]

Init ==
  /\ users = {}
  /\ nextUid = UidStart
  /\ kv = [k \in Keys |-> NoEntry]
  /\ issued = {}
  /\ now = 0
  /\ req = [r \in Reqs |-> IdleReq]
  /\ payments = {}
  /\ ms = 0

Done(r) == req[r].pc = "done"
DoneReqs == {r \in Reqs : Done(r)}

\* --------------------------------------------------------------- kv cache
\* setKV: INSERT ... ON CONFLICT (key) DO UPDATE, expire = Date.now() + ttl * 1000
setKV(store, key, value, ttl) ==
  [store EXCEPT ![key] = [present |-> TRUE, value |-> value, expire |-> now + ttl]]

\* delKV: DELETE FROM kv WHERE key = $1
delKV(store, key) == [store EXCEPT ![key] = NoEntry]

\* the comparison of getKV turned round
ExpiredFlipped(res) == res.expire > now

\* getKV after its SELECT: res.expire < Date.now()
Expired(res) == res.expire < now

\* ------------------------------------------------------------- the routes
\* util.uidToToken({ uid: user.uid, create: Date.now(), expire: Date.now() + 30 days })
LoginToken(ret) ==
  [minted |-> TRUE, hasUid |-> ret.kind = "user", uid |-> ret.user.uid,
   create |-> now, expire |-> now + ThirtyDaysSec]

\* GET /user/verifyCode: util.uidToToken({ uid: user.uid, create: Date.now(),
\* expire: Date.now() + 3600 * 24 * 30 }), the offset taken as milliseconds
VerifyToken(ret) ==
  [minted |-> TRUE, hasUid |-> ret.kind = "user", uid |-> ret.user.uid,
   create |-> now, expire |-> now + VerifyOffsetSec]

\* GET /start/maxthon: the token of /user/login
MaxthonToken(ret) ==
  [minted |-> TRUE, hasUid |-> ret.kind = "user", uid |-> ret.user.uid,
   create |-> now, expire |-> now + ThirtyDaysSec]

\* the end of a route once its handler has returned or thrown; the routes
\* without a try/catch (ensure, verify_code, start_maxthon) let the error out
Finish(rq, ret) ==
  LET login == rq.op \in {"login_ott", "login_pw"}
      resp == CASE ret.kind = "throw" ->
                     IF rq.op \in {"ensure", "verify_code", "start_maxthon"}
                     THEN "thrown" ELSE "internal-server-error"
                [] login /\ ret.kind = "null" -> "invalid-email-or-password"
                [] rq.op = "start_maxthon" -> "redirect-dashboard"
                [] OTHER -> "result"
  IN [rq EXCEPT !.pc = "done", !.ret = ret, !.resp = resp,
                !.token = IF login /\ ret.kind \in {"user", "empty"}
                          THEN LoginToken(ret)
                          ELSE IF rq.op = "verify_code" /\ ret.kind = "user"
                          THEN VerifyToken(ret)
                          ELSE IF rq.op = "start_maxthon" /\ ret.kind = "user"
                          THEN MaxthonToken(ret)
                          ELSE NoToken]

\* createUser generating a password for native (frm = 0) callers as well
createUserAnyFrm(rq, email, password, frm, info, generated) ==
  IF Falsy(email) THEN Finish(rq, Throw("email required"))
  ELSE [rq EXCEPT !.pc = "create_check", !.cEmail = email, !.cFrm = frm,
                  !.cInfo = info,
                  !.finalPassword = IF Falsy(password) THEN generated ELSE password]

\* createUser up to its first await: validation and the generated password
createUser(rq, email, password, frm, info, generated) ==
  IF Falsy(email) THEN Finish(rq, Throw("email required"))
  ELSE IF frm > 0 /\ Falsy(password)
  THEN [rq EXCEPT !.pc = "create_check", !.cEmail = email, !.cFrm = frm,
                  !.cInfo = info, !.finalPassword = generated]
  ELSE IF Falsy(password) THEN Finish(rq, Throw("password required"))
  ELSE [rq EXCEPT !.pc = "create_check", !.cEmail = email, !.cFrm = frm,
                  !.cInfo = info, !.finalPassword = password]

\* ensureUser up to its first await
ensureUser(rq, email, uid, frm, info) ==
  IF Falsy(email) /\ uid = NoUid THEN Finish(rq, Throw("email or uid required"))
  ELSE [rq EXCEPT !.pc = "ensure_get", !.cEmail = email, !.uid = uid,
                  !.cFrm = frm, !.cInfo = info]

\* getUser: by uid when a uid is given, else by email; pass is not selected
getUser(tbl, email, uid) ==
  IF uid # NoUid THEN RowWithUid(tbl, uid) ELSE RowWithEmail(tbl, email)

Start(r, rq) ==
  /\ req[r].pc = "idle"
  /\ req' = [req EXCEPT ![r] = [rq EXCEPT !.prior = DoneReqs]]

\* POST /user/register
Register(r) ==
  \E in \in RegisterInputs, generated \in RandomPasswords :
    /\ Start(r, createUser([IdleReq EXCEPT !.op = "register", !.email = in.email,
                                !.password = in.password, !.frm = in.frm],
                           in.email, in.password, OrZero(in.frm), NoInfo, generated))
    /\ UNCHANGED <<users, nextUid, kv, issued, now, payments, ms>>

\* createUser: SELECT uid FROM users WHERE email = $1, then hashPassword
CreateCheck(r) ==
  /\ req[r].pc = "create_check"
  /\ \E salt \in Salts :
       req' = [req EXCEPT ![r] =
                IF RowWithEmail(users, req[r].cEmail) # {}
                THEN Finish(req[r], Throw("email taken"))
                ELSE [req[r] EXCEPT !.pc = "create_insert",
                                    !.hash = hashPassword(req[r].finalPassword, salt)]]
  /\ UNCHANGED <<users, nextUid, kv, issued, now, payments, ms>>

\* the insert on a table whose email column is not UNIQUE
InsertNoUnique(tbl, row) == tbl \cup {row}

\* INSERT INTO users ... RETURNING *: email is UNIQUE, uid is SERIAL (the
\* sequence advances also when the insert is rejected)
Insert(tbl, row) ==
  IF RowWithEmail(tbl, row.email) # {} THEN tbl ELSE tbl \cup {row}

CreateInsert(r) ==
  /\ req[r].pc = "create_insert"
  /\ LET row == [uid |-> nextUid, email |-> req[r].cEmail, pass |-> req[r].hash,
                 frm |-> req[r].cFrm, info |-> req[r].cInfo, status |-> 1,
                 level |-> 0, updated_at |-> now]
         tbl == Insert(users, row)
     IN /\ users' = tbl
        /\ req' = [req EXCEPT ![r] =
                    IF row \in tbl /\ row \notin users
                    THEN Finish(req[r], RetUser(StripPass(row)))
                    ELSE Finish(req[r], Throw("unique violation"))]
  /\ nextUid' = nextUid + 1
  /\ UNCHANGED <<kv, issued, now, payments, ms>>

\* a direct call of ensureUser({ email, uid, frm }) (GET /user/verifyCode,
\* GET /start/maxthon, the login_success notification)
EnsureUserCall(r) ==
  \E in \in EnsureInputs :
    /\ Start(r, ensureUser([IdleReq EXCEPT !.op = "ensure", !.email = in.email,
                                !.uid = in.uid, !.frm = in.frm],
                           in.email, in.uid, OrZero(in.frm), NoInfo))
    /\ UNCHANGED <<users, nextUid, kv, issued, now, payments, ms>>

\* ensureUser after getUser's SELECT: the row found, or createUser({ email,
\* frm: frm || 0, info }) up to its first await
EnsureGet(r) ==
  /\ req[r].pc = "ensure_get"
  /\ LET found == getUser(users, req[r].cEmail, req[r].uid)
     IN \E generated \in RandomPasswords :
          req' = [req EXCEPT ![r] =
            IF found # {}
            THEN Finish(req[r], RetUser(StripPass(CHOOSE u \in found : TRUE)))
            ELSE IF Falsy(req[r].cEmail)
            THEN Finish(req[r], Throw("email required to create"))
            ELSE createUser(req[r], req[r].cEmail, Absent, req[r].cFrm,
                            req[r].cInfo, generated)]
  /\ UNCHANGED <<users, nextUid, kv, issued, now, payments, ms>>

\* POST /user/login with an OTT: handleOTT({ OTT, uid: req.uid }) up to the
\* SELECT of getKV
LoginOTT(r) ==
  \E key \in Keys, uid \in {NoUid, UidStart} :
    /\ Start(r, [IdleReq EXCEPT !.op = "login_ott", !.OTT = key, !.uid = uid,
                                !.pc = "kv_select"])
    /\ UNCHANGED <<users, nextUid, kv, issued, now, payments, ms>>

\* getKV: SELECT value, expire FROM kv WHERE key = $1
KvSelect(r) ==
  /\ req[r].pc = "kv_select"
  /\ req' = [req EXCEPT ![r] = [req[r] EXCEPT !.pc = "kv_check", !.res = kv[req[r].OTT]]]
  /\ UNCHANGED <<users, nextUid, kv, issued, now, payments, ms>>

\* handleOTT from JSON.parse to the first await of ensureUser
dispatchOTT(rq, OTTObj) ==
  CASE OTTObj.type = "google" ->
         ensureUser(rq, OTTObj.email, rq.uid, 1, [NoInfo EXCEPT !.avatar = OTTObj.picture])
    [] OTTObj.type = "maxthon" ->
         IF Falsy(OTTObj.email)
         THEN Finish(rq, Throw("TypeError: Assignment to constant variable"))
         ELSE ensureUser(rq, OTTObj.email, rq.uid, 2, [NoInfo EXCEPT !.avatar = OTTObj.avatar_url])
    [] OTTObj.type = "email" ->
         ensureUser(rq, OTTObj.email, rq.uid, 3, NoInfo)
    [] OTHER -> Finish(rq, RetEmpty)

\* the caller of getKV once it has returned: a direct caller is done,
\* handleOTT goes on up to its next await
afterGetKV(rq, got) ==
  LET g == [rq EXCEPT !.got = got]
  IN IF rq.op = "cache_get" THEN [g EXCEPT !.pc = "done"]
     ELSE IF got.kind = "null" \/ got.value \in {EmptyText, NullJson}
     THEN Finish(g, RetNull)
     ELSE dispatchOTT(g, got.value)

\* getKV after its SELECT, then its caller up to the next await
KvCheck(r) ==
  /\ req[r].pc = "kv_check"
  /\ LET res == req[r].res
     IN req' = [req EXCEPT ![r] =
          IF ~res.present THEN afterGetKV(req[r], GotNull)
          ELSE IF Expired(res) THEN [req[r] EXCEPT !.pc = "kv_del"]
          ELSE afterGetKV(req[r], GotValue(res.value))]
  /\ UNCHANGED <<users, nextUid, kv, issued, now, payments, ms>>

\* getKV on an expired entry: await this.delKV(key); return null
KvDel(r) ==
  /\ req[r].pc = "kv_del"
  /\ kv' = delKV(kv, req[r].OTT)
  /\ req' = [req EXCEPT ![r] = afterGetKV(req[r], GotNull)]
  /\ UNCHANGED <<users, nextUid, issued, now, payments, ms>>

\* authenticateUser's guard reads the identifier OTT, which is neither a
\* parameter nor a binding of the module
OTTInScope == FALSE

authenticateUser(tbl, email, password) ==
  IF ~OTTInScope THEN Throw("ReferenceError: OTT is not defined")
  ELSE IF Falsy(email) \/ Falsy(password) THEN Throw("email and password required")
  ELSE LET found == {u \in RowWithEmail(tbl, email) : u.status = 1}
       IN IF found = {} THEN RetNull
          ELSE LET user == CHOOSE u \in found : TRUE
               IN IF ~verifyPassword(password, user.pass) THEN RetNull
                  ELSE RetUser(StripPass(user))

\* POST /user/login without an OTT
LoginPassword(r) ==
  \E in \in LoginInputs :
    /\ Start(r, Finish([IdleReq EXCEPT !.op = "login_pw", !.email = in.email,
                                       !.password = in.password],
                       authenticateUser(users, in.email, in.password)))
    /\ UNCHANGED <<users, nextUid, kv, issued, now, payments, ms>>

\* a delete that removes the row
deleteUserHard(tbl, uid) == {u \in tbl : u.uid # uid}

\* DELETE /user/delete: UPDATE users SET status = 0 WHERE uid = $1
deleteUser(tbl, uid) ==
  {IF u.uid = uid THEN update_updated_at_column([u EXCEPT !.status = 0]) ELSE u : u \in tbl}

DeleteUser ==
  \E u \in users :
    /\ users' = deleteUser(users, u.uid)
    /\ UNCHANGED <<nextUid, kv, issued, now, req, payments, ms>>

\* the identity broker issues an OTT: setKV(key, value, ttl) under a fresh
\* random token (issued: the tokens handed out so far, none is handed out twice)
BrokerSetKV ==
  \E key \in Keys \ issued, value \in Payloads, ttl \in TTLs :
    /\ kv' = setKV(kv, key, value, ttl)
    /\ issued' = issued \cup {key}
    /\ UNCHANGED <<users, nextUid, now, req, payments, ms>>

\* the clock advances
Tick ==
  /\ now < MaxTicks
  /\ now' = now + 1
  /\ UNCHANGED <<users, nextUid, kv, issued, req, payments, ms>>

Next ==
  \/ Tick
  \/ BrokerSetKV
  \/ DeleteUser
  \/ \E r \in Reqs : Register(r)
  \/ \E r \in Reqs : EnsureUserCall(r)
  \/ \E r \in Reqs : LoginOTT(r)
  \/ \E r \in Reqs : LoginPassword(r)
  \/ \E r \in Reqs : EnsureGet(r)
  \/ \E r \in Reqs : CreateCheck(r)
  \/ \E r \in Reqs : CreateInsert(r)
  \/ \E r \in Reqs : KvSelect(r)
  \/ \E r \in Reqs : KvCheck(r)
  \/ \E r \in Reqs : KvDel(r)

Spec == Init /\ [][Next]_vars

\* the routes that work on the users table alone
NextUsers ==
  \/ DeleteUser
  \/ \E r \in Reqs : Register(r)
  \/ \E r \in Reqs : EnsureUserCall(r)
  \/ \E r \in Reqs : LoginPassword(r)
  \/ \E r \in Reqs : EnsureGet(r)
  \/ \E r \in Reqs : CreateCheck(r)
  \/ \E r \in Reqs : CreateInsert(r)

SpecUsers == Init /\ [][NextUsers]_vars

\* the OTT login against the cache and the clock
NextOTT ==
  \/ Tick
  \/ BrokerSetKV
  \/ \E r \in Reqs : LoginOTT(r)
  \/ \E r \in Reqs : EnsureGet(r)
  \/ \E r \in Reqs : CreateCheck(r)
  \/ \E r \in Reqs : CreateInsert(r)
  \/ \E r \in Reqs : KvSelect(r)
  \/ \E r \in Reqs : KvCheck(r)
  \/ \E r \in Reqs : KvDel(r)

SpecOTT == Init /\ [][NextOTT]_vars

\* GET /user/verifyCode: mail.verifyEmailCode accepts the code or not, then
\* ensureUser({ email, frm: 3 }) up to its first await
VerifyInputs == {[email |-> "a@b.com", accepted |-> TRUE],
                 [email |-> "a@b.com", accepted |-> FALSE]}
VerifyCode(r) ==
  \E in \in VerifyInputs :
    /\ Start(r, IF in.accepted
                THEN ensureUser([IdleReq EXCEPT !.op = "verify_code", !.email = in.email,
                                                !.frm = Some(3)],
                                in.email, NoUid, 3, NoInfo)
                ELSE [IdleReq EXCEPT !.op = "verify_code", !.email = in.email,
                                     !.pc = "done", !.resp = "invalid-code"])
    /\ UNCHANGED <<users, nextUid, kv, issued, now, payments, ms>>

\* GET /start/maxthon: the account service answers { user_id, email }, then
\* ensureUser({ uid, email }) up to its first await
MaxthonInputs == {[uid |-> NoUid, email |-> Absent],
                  [uid |-> UidStart, email |-> "a@b.com"]}
StartMaxthon(r) ==
  \E in \in MaxthonInputs :
    /\ Start(r, IF in.uid = NoUid
                THEN [IdleReq EXCEPT !.op = "start_maxthon", !.pc = "done",
                                     !.resp = "redirect-home"]
                ELSE ensureUser([IdleReq EXCEPT !.op = "start_maxthon",
                                                !.email = in.email, !.uid = in.uid],
                                in.email, in.uid, 0, NoInfo))
    /\ UNCHANGED <<users, nextUid, kv, issued, now, payments, ms>>

\* every route that mints a session token
NextTokens ==
  \/ Tick
  \/ BrokerSetKV
  \/ \E r \in Reqs : LoginOTT(r)
  \/ \E r \in Reqs : LoginPassword(r)
  \/ \E r \in Reqs : VerifyCode(r)
  \/ \E r \in Reqs : StartMaxthon(r)
  \/ \E r \in Reqs : EnsureGet(r)
  \/ \E r \in Reqs : CreateCheck(r)
  \/ \E r \in Reqs : CreateInsert(r)
  \/ \E r \in Reqs : KvSelect(r)
  \/ \E r \in Reqs : KvCheck(r)
  \/ \E r \in Reqs : KvDel(r)

SpecTokens == Init /\ [][NextTokens]_vars

\* ------------------------------------------------------ password hashing
\* salts: crypto.randomBytes(16).toString('hex'), and salts a caller supplies
HexSalts == {<<"s", "1">>, <<"s", "2">>}
SuppliedSalts == {<<"c", "d">>, <<"a", ":", "b">>}

\* hashPassword(password, OTT).hash, then verifyPassword(candidate, hash)
HashVerify(r) ==
  \E password \in Passwords, candidate \in Passwords,
     OTT \in SuppliedSalts \cup {NoSalt}, random \in HexSalts :
    LET salt == saltOrRandom(OTT, random)
        hash == hashPassword(password, salt)
    IN /\ Start(r, [IdleReq EXCEPT !.op = "hash", !.pc = "done", !.password = password,
                                   !.candidate = candidate, !.salt = salt, !.hash = hash,
                                   !.verified = verifyOutcome(candidate, hash)])
       /\ UNCHANGED <<users, nextUid, kv, issued, now, payments, ms>>

\* values of the pass column that hashPassword did not write, and one it did
StoredValues ==
  { NoPass, NotString, <<"s", "1">>,
    <<":">> \o Pbkdf2("pw1", <<>>, PbkdfIterations),
    <<":", "x">>, <<"s", "1", ":">>,
    hashPassword("pw1", <<"s", "1">>) }

\* verifyPassword(candidate, stored)
VerifyStored(r) ==
  \E candidate \in Passwords \cup {Absent}, stored \in StoredValues :
    /\ Start(r, [IdleReq EXCEPT !.op = "verify", !.pc = "done", !.candidate = candidate,
                                !.hash = stored,
                                !.verified = verifyOutcome(candidate, stored)])
    /\ UNCHANGED <<users, nextUid, kv, issued, now, payments, ms>>

NextPassword ==
  \/ \E r \in Reqs : HashVerify(r)
  \/ \E r \in Reqs : VerifyStored(r)

SpecPassword == Init /\ [][NextPassword]_vars

\* ------------------------------------------------------- Number arithmetic
\* JS Numbers are IEEE-754 doubles. A positive double is m * 2^e with a
\* 53-bit significand m. Integers below 2^54 are kept as <<lo, hi>> with
\* value lo + hi * Half (the checker's integers have 32 bits); products of
\* two significands are computed on limbs below Base.
SigBits == 53
HalfBits == 27
Half == 2 ^ HalfBits
LimbBits == 14
Base == 2 ^ LimbBits

W(n) == <<n % Half, n \div Half>>
WDbl(a, bit) == <<(2 * a[1] + bit) % Half, 2 * a[2] + ((2 * a[1] + bit) \div Half)>>
WGeq(a, b) == a[2] > b[2] \/ (a[2] = b[2] /\ a[1] >= b[1])
WSub(a, b) == IF a[1] >= b[1] THEN <<a[1] - b[1], a[2] - b[2]>>
              ELSE <<a[1] + Half - b[1], a[2] - b[2] - 1>>
WBit(a, i) == IF i < HalfBits THEN (a[1] \div (2 ^ i)) % 2
              ELSE (a[2] \div (2 ^ (i - HalfBits))) % 2
WHalf(a) == <<(a[1] \div 2) + (a[2] % 2) * (Half \div 2), a[2] \div 2>>
WInc(a) == IF a[1] + 1 = Half THEN <<0, a[2] + 1>> ELSE <<a[1] + 1, a[2]>>
RECURSIVE IntBits(_)
IntBits(n) == IF n = 0 THEN 0 ELSE 1 + IntBits(n \div 2)
WBitLen(a) == IF a[2] > 0 THEN HalfBits + IntBits(a[2]) ELSE IntBits(a[1])

\* round to nearest, ties to even: kept is the 53-bit prefix of the exact
\* value, e the weight of its last bit, roundBit the next bit, sticky
\* whether anything non-zero follows
RoundEven(kept, roundBit, sticky, e) ==
  LET up == roundBit = 1 /\ (sticky \/ kept[1] % 2 = 1)
      rounded == IF up THEN WInc(kept) ELSE kept
  IN IF WBitLen(rounded) > SigBits THEN [m |-> WHalf(rounded), e |-> e + 1]
     ELSE [m |-> rounded, e |-> e]

\* long division of P by Q, one quotient bit per step from the top bit of P
\* downwards (below bit 0 the dividend is extended with zeros): q collects
\* the bits from the first 1 on, n counts them, R is the running remainder,
\* i is the weight of the next bit. It stops when SigBits bits and the
\* rounding bit are collected.
DivStep(P, Q, st) ==
  LET R2 == WDbl(st.R, IF st.i >= 0 THEN WBit(P, st.i) ELSE 0)
      one == WGeq(R2, Q)
  IN [i |-> st.i - 1,
      R |-> IF one THEN WSub(R2, Q) ELSE R2,
      q |-> IF st.n = 0 /\ ~one THEN st.q ELSE WDbl(st.q, IF one THEN 1 ELSE 0),
      n |-> IF st.n = 0 /\ ~one THEN 0 ELSE st.n + 1]
RECURSIVE DivBits(_, _, _)
DivBits(P, Q, st) ==
  IF st.n = SigBits + 1 THEN st ELSE DivBits(P, Q, DivStep(P, Q, st))

\* the double nearest to P / Q * 2^e0, for P > 0 and Q > 0 below 2^53: the
\* last bit collected is the rounding bit, of weight 2^(d.i + 1)
RoundDiv(P, Q, e0) ==
  LET d == DivBits(P, Q, [i |-> WBitLen(P) - 1, R |-> W(0), q |-> W(0), n |-> 0])
  IN RoundEven(WHalf(d.q), d.q[1] % 2,
               d.R # W(0) \/ \E j \in 0..d.i : WBit(P, j) = 1,
               d.i + 2 + e0)

\* the limbs of a significand, and the product of two significands
Limbs(a) ==
  << a[1] % Base,
     (a[1] \div Base) + (a[2] % 2) * (Base \div 2),
     (a[2] \div 2) % Base,
     a[2] \div (2 * Base) >>
Limb(a, j) == IF j \in 1..Len(a) THEN a[j] ELSE 0
RECURSIVE ColSum(_, _, _, _)
ColSum(a, b, k, i) ==
  IF i > Len(a) THEN 0
  ELSE Limb(a, i) * Limb(b, k + 1 - i) + ColSum(a, b, k, i + 1)
RECURSIVE MulFrom(_, _, _, _)
MulFrom(a, b, k, carry) ==
  IF k > Len(a) + Len(b) THEN <<>>
  ELSE LET t == ColSum(a, b, k, 1) + carry
       IN <<t % Base>> \o MulFrom(a, b, k + 1, t \div Base)
BigMul(a, b) == MulFrom(a, b, 1, 0)

\* bits from .. from + n - 1 of a sequence of limbs, n <= HalfBits
BitsAt(a, from, n) ==
  LET j == (from \div LimbBits) + 1
      s == from % LimbBits
      more == n - (2 * LimbBits - s)
  IN ( (Limb(a, j) \div (2 ^ s))
       + Limb(a, j + 1) * (2 ^ (LimbBits - s))
       + (IF more > 0 THEN (Limb(a, j + 2) % (2 ^ more)) * (2 ^ (2 * LimbBits - s))
          ELSE 0) ) % (2 ^ n)
\* whether a bit below position k of a sequence of limbs is set
LowBits(a, k) ==
  \E j \in 1..Len(a) :
    (IF j * LimbBits <= k THEN a[j]
     ELSE IF (j - 1) * LimbBits < k THEN a[j] % (2 ^ (k - (j - 1) * LimbBits))
     ELSE 0) # 0
\* the top limb that is not zero
TopLimb(a) == CHOOSE j \in 1..Len(a) : a[j] # 0 /\ \A k \in (j + 1)..Len(a) : a[k] = 0

\* x / y, x * y on doubles; p / q for integers p, q > 0
DDiv(x, y) == RoundDiv(x.m, y.m, x.e - y.e)
DMul(x, y) ==
  LET P == BigMul(Limbs(x.m), Limbs(y.m))
      len == (TopLimb(P) - 1) * LimbBits + IntBits(P[TopLimb(P)])
      k == len - SigBits
  IN RoundEven(<<BitsAt(P, k, HalfBits), BitsAt(P, k + HalfBits, SigBits - HalfBits)>>,
               BitsAt(P, k - 1, 1), LowBits(P, k - 1), x.e + y.e + k)
DOfRatio(p, q) == RoundDiv(W(p), W(q), 0)
\* Math.floor of a positive double below 2^31
MathFloor(x) ==
  LET k == 0 - x.e
  IN IF k >= 2 * HalfBits THEN 0
     ELSE IF k >= HalfBits THEN x.m[2] \div (2 ^ (k - HalfBits))
     ELSE x.m[2] * (2 ^ (HalfBits - k)) + (x.m[1] \div (2 ^ k))

\* ------------------------------------------------------------ entitlement
\* Date.now() in milliseconds
DateNow == now * 1000 + ms
MsParts == {0, 700}

\* the plan keywords of getPlan
KW_BASIC == <<"b", "a", "s", "i", "c">>
KW_PRO == <<"p", "r", "o">>
KW_PLUS == <<"p", "l", "u", "s">>
KW_ULTRA == <<"u", "l", "t", "r", "a">>

\* what getPlan returns: { name: 'free' }, { name, endTime }, or a TypeError
PlanFree == [kind |-> "plan", name |-> "free", hasEnd |-> FALSE, endTime |-> 0]
Plan(name, endTime) == [kind |-> "plan", name |-> name, hasEnd |-> TRUE, endTime |-> endTime]
PlanThrow == [kind |-> "throw", name |-> "", hasEnd |-> FALSE, endTime |-> 0]

\* the keyword tests of getPlan with ultra tested first
classifyUltraFirst(name, endTime) ==
  IF indexOf(name, KW_ULTRA) > -1 THEN Plan("ultra", endTime)
  ELSE IF indexOf(name, KW_PLUS) > -1 THEN Plan("plus", endTime)
  ELSE IF indexOf(name, KW_PRO) > -1 THEN Plan("pro", endTime)
  ELSE IF indexOf(name, KW_BASIC) > -1 THEN Plan("basic", endTime)
  ELSE PlanFree

\* the keyword tests of getPlan on the lower-cased name, in source order
classify(name, endTime) ==
  IF indexOf(name, KW_BASIC) > -1 THEN Plan("basic", endTime)
  ELSE IF indexOf(name, KW_PRO) > -1 THEN Plan("pro", endTime)
  ELSE IF indexOf(name, KW_BASIC) > -1 THEN Plan("basic", endTime)
  ELSE IF indexOf(name, KW_PLUS) > -1 THEN Plan("plus", endTime)
  ELSE IF indexOf(name, KW_ULTRA) > -1 THEN Plan("ultra", endTime)
  ELSE PlanFree

\* getPlan that ignores info.delta
getPlanNoDelta(found) ==
  IF found = {} THEN PlanFree
  ELSE LET user == CHOOSE u \in found : TRUE
           pay == user.info.pay
           name == IF FalsyStr(pay.name) THEN pay.product ELSE pay.name
       IN IF ~pay.present THEN PlanFree
          ELSE IF pay.endTime * 1000 < DateNow THEN PlanFree
          ELSE IF name = NoStr THEN PlanThrow
          ELSE classify(toLowerCase(name), pay.endTime)

\* getPlan({ user }) for the result of getUser (a row or null)
getPlan(found) ==
  IF found = {} THEN PlanFree
  ELSE LET user == CHOOSE u \in found : TRUE
           pay == user.info.pay
           delta == OrZero(user.info.delta)
           name == IF FalsyStr(pay.name) THEN pay.product ELSE pay.name
       IN IF ~pay.present THEN PlanFree
          ELSE IF pay.endTime * 1000 < DateNow THEN PlanFree
          ELSE IF name = NoStr THEN PlanThrow
          ELSE classify(toLowerCase(name), pay.endTime + delta)

\* GET /user/info: getUser({ uid }), then user.plan = getPlan({ user })
UserInfo(r) ==
  \E uid \in {UidStart, UidStart + 1} :
    /\ LET found == getUser(users, Absent, uid)
           plan == getPlan(found)
       IN Start(r, [IdleReq EXCEPT
                      !.op = "user_info", !.uid = uid, !.pc = "done", !.plan = plan,
                      !.ret = IF found = {} THEN RetNull
                              ELSE RetUser(CHOOSE u \in found : TRUE),
                      !.resp = IF found = {} \/ plan.kind = "throw"
                               THEN "internal-server-error" ELSE "result"])
    /\ UNCHANGED <<users, nextUid, kv, issued, now, payments, ms>>

\* pay snapshots for getPlan: plan names in several letter cases, with
\* several keywords, with none, and without a name
PlanNames ==
  { [name |-> <<"P", "r", "o", " ", "P", "l", "a", "n", " ", "M", "o", "n", "t", "h", "l", "y">>, product |-> NoStr],
    [name |-> <<"U", "l", "t", "r", "a", " ", "B", "A", "S", "I", "C", " ", "b", "u", "n", "d", "l", "e">>, product |-> NoStr],
    [name |-> <<"P", "L", "U", "S", " ", "P", "r", "o", " ", "y", "e", "a", "r", "l", "y">>, product |-> NoStr],
    [name |-> <<"u", "l", "t", "r", "a", "-", "p", "l", "u", "s">>, product |-> NoStr],
    [name |-> <<"S", "t", "a", "r", "t", "e", "r">>, product |-> NoStr],
    [name |-> NoStr, product |-> <<"p", "l", "u", "s", "_", "y", "e", "a", "r">>],
    [name |-> <<>>, product |-> <<"U", "L", "T", "R", "A">>],
    [name |-> NoStr, product |-> NoStr] }
DayEnd == 86400
PlanEndTimes == {1, DayEnd}
PlanInfos ==
  { [avatar |-> "pic", pay |-> NoPay, delta |-> None] } \cup
  { [avatar |-> "pic",
     pay |-> Meta(UidStart, "o1", n.name, n.product, Some(1000), e, NoStr),
     delta |-> d] : n \in PlanNames, e \in PlanEndTimes, d \in {None, Some(0), Some(3600)} }

\* a user registered with a password
RegisteredUser(info) ==
  [uid |-> UidStart, email |-> "a@b.com",
   pass |-> hashPassword("pw1", CHOOSE salt \in Salts : TRUE),
   frm |-> 0, info |-> info, status |-> 1, level |-> 0, updated_at |-> 0]

\* getPlan over the pay snapshots and the clock
InitPlan ==
  /\ \E info \in PlanInfos : users = {RegisteredUser(info)}
  /\ nextUid = UidStart + 1
  /\ kv = [k \in Keys |-> NoEntry]
  /\ issued = {}
  /\ now \in 0..MaxTicks
  /\ ms \in MsParts
  /\ req = [r \in Reqs |-> IdleReq]
  /\ payments = {}

NextPlan == \E r \in Reqs : UserInfo(r)

SpecPlan == InitPlan /\ [][NextPlan]_vars

\* getPlan asked again as the clock advances, with no payment in between
NextPlanClock ==
  \/ Tick
  \/ \E r \in Reqs : UserInfo(r)

SpecPlanClock == InitPlan /\ [][NextPlanClock]_vars

\* ------------------------------------------------ payments and proration
\* order_paid events: the two plans of Config, a plan known by its price
\* tag only (amount 0, the amount is read from the price), and an event for
\* a uid that has no row
EndFar == 1296000
PaidMetas ==
  { Meta(UidStart, "o1", <<"P", "l", "u", "s", " ", "P", "l", "a", "n", " ", "Y", "e", "a", "r", "l", "y">>, NoStr, Some(9900), EndFar, <<"9", "9", "0", "0", "|", "Y">>),
    Meta(UidStart, "o2", <<"P", "l", "u", "s", " ", "P", "l", "a", "n", " ", "M", "o", "n", "t", "h", "l", "y">>, NoStr, Some(990), EndFar, <<"9", "9", "0", "|", "M">>),
    Meta(UidStart, "o3", <<"P", "r", "o", " ", "P", "l", "a", "n">>, NoStr, Some(0), EndFar, <<"9", "9", "0", "0", "|", " ", "y", " ">>),
    Meta(UidStart + 1, "o4", <<"P", "l", "u", "s", " ", "P", "l", "a", "n", " ", "M", "o", "n", "t", "h", "l", "y">>, NoStr, Some(990), EndFar, <<"9", "9", "0", "|", "M">>) }
InfoBodies == { [avatar |-> Some("new"), pay |-> None, delta |-> None] }

\* the pay snapshot a user already has when an event arrives
EndNear == 10
PriorPays ==
  { NoPay,
    Meta(UidStart, "o0", <<"P", "l", "u", "s", " ", "P", "l", "a", "n", " ", "M", "o", "n", "t", "h", "l", "y">>, NoStr, Some(990), EndFar, <<"9", "9", "0", "|", "M">>),
    Meta(UidStart, "o0", <<"B", "a", "s", "i", "c", " ", "P", "l", "a", "n", " ", "Y", "e", "a", "r", "l", "y">>, NoStr, Some(990), EndNear, <<"9", "9", "0", "|", "Y">>),
    Meta(UidStart, "o0", <<"P", "l", "u", "s", " ", "P", "l", "a", "n", " ", "Y", "e", "a", "r", "l", "y">>, NoStr, Some(9900), EndNear, <<"9", "9", "0", "0", "|", "Y">>),
    Meta(UidStart, "o0", <<"P", "r", "o", " ", "P", "l", "a", "n">>, NoStr, Some(9900), EndFar, <<"9", "9", "0", "0", "|", "Y">>),
    Meta(UidStart, "o0", <<"P", "r", "o", " ", "P", "l", "a", "n", " ", "M", "o", "n", "t", "h", "l", "y">>, NoStr, Some(1000), EndNear, <<"1", "0", "0", "0", "|", "M">>) }
PriorInfos ==
  { [avatar |-> "pic", pay |-> p, delta |-> IF p.present THEN Some(3600) ELSE None] :
      p \in PriorPays }

\* what handleOrderPaid and updateUserInfo answer
Answer(rq, resp, ret) == [rq EXCEPT !.pc = "done", !.resp = resp, !.ret = ret]

\* INSERT INTO payments: order_id is UNIQUE, uid REFERENCES users(uid),
\* amount is NOT NULL; a rejected insert leaves the table as it was
PaymentInsert(tbl, usersTbl, row) ==
  IF \/ \E p \in tbl : p.order_id = row.order_id
     \/ (row.uid # NoUid /\ RowWithUid(usersTbl, row.uid) = {})
     \/ row.amount = None
  THEN tbl ELSE tbl \cup {row}

\* the cycle words of inferCycleSec
WORD_YEAR == <<"y", "e", "a", "r">>
WORD_MONTH == <<"m", "o", "n", "t", "h">>

monthSec == 30 * 24 * 60 * 60
yearSec == 365 * 24 * 60 * 60

\* inferCycleSec(nameStr, priceTag)
inferCycleSec(nameStr, priceTag) ==
  LET lower == toLowerCase(IF FalsyStr(nameStr) THEN <<>> ELSE nameStr)
      parts == split(IF FalsyStr(priceTag) THEN <<>> ELSE priceTag, "|")
      tag == IF Len(parts) >= 2 THEN toLowerCase(trim(parts[2])) ELSE NoStr
  IN IF includes(lower, WORD_YEAR) THEN yearSec
     ELSE IF includes(lower, WORD_MONTH) THEN monthSec
     ELSE IF tag = <<"y">> THEN yearSec
     ELSE IF tag = <<"m">> THEN monthSec
     ELSE monthSec

\* the cycle of the old plan as handleOrderPaid asks for it: by name only
oldCycleSecOf(pay) == inferCycleSec(pay.name, NoStr)
newCycleSecOf(meta) == inferCycleSec(meta.name, meta.price)
\* newAmount: meta.amount, or the number before '|' in meta.price when 0
newAmountOf(meta) ==
  IF OrZero(meta.amount) = 0 THEN NumberOrZero(split(meta.price, "|")[1])
  ELSE OrZero(meta.amount)
\* endTime * 1000 - Date.now()
remainingMs(pay) == pay.endTime * 1000 - DateNow

\* the proration with the ratio of the rates turned over
prorationInverted(pay, meta) ==
  LET oldAmount == OrZero(pay.amount)
      newAmount == newAmountOf(meta)
  IN IF remainingMs(pay) > 0 /\ oldAmount > 0 /\ newAmount > 0
     THEN LET remainingSec == DOfRatio(remainingMs(pay), 1000)
              oldRatePerSec == DOfRatio(oldAmount, oldCycleSecOf(pay))
              newRatePerSec == DOfRatio(newAmount, newCycleSecOf(meta))
          IN MathFloor(DMul(remainingSec, DDiv(newRatePerSec, oldRatePerSec)))
     ELSE 0

\* the proration of handleOrderPaid for a prior pay snapshot:
\* Math.floor(remainingSec * (oldRatePerSec / newRatePerSec)), or 0
proration(pay, meta) ==
  LET oldAmount == OrZero(pay.amount)
      newAmount == newAmountOf(meta)
  IN IF remainingMs(pay) > 0 /\ oldAmount > 0 /\ newAmount > 0
     THEN LET remainingSec == DOfRatio(remainingMs(pay), 1000)
              oldRatePerSec == DOfRatio(oldAmount, oldCycleSecOf(pay))
              newRatePerSec == DOfRatio(newAmount, newCycleSecOf(meta))
          IN MathFloor(DMul(remainingSec, DDiv(oldRatePerSec, newRatePerSec)))
     ELSE 0

\* handleOrderPaid stopping at a rejected payment insert
afterInsertStrict(rq, inserted) ==
  IF ~inserted THEN Answer(rq, "thrown", Throw("payment insert failed"))
  ELSE IF rq.meta.uid = NoUid THEN Answer(rq, "no-uid", RetNull)
  ELSE [rq EXCEPT !.pc = "pay_info"]

\* handleOrderPaid without its test of the uid
afterInsertAnyUid(rq, inserted) == [rq EXCEPT !.pc = "pay_info"]

\* handleOrderPaid after the insert, whose error is caught and dropped
afterInsert(rq, inserted) ==
  IF rq.meta.uid = NoUid THEN Answer(rq, "no-uid", RetNull)
  ELSE [rq EXCEPT !.pc = "pay_info"]

\* the order_paid notification: handleOrderPaid up to the payments insert,
\* for an event of metas
OrderPaid(r, metas) ==
  \E meta \in metas :
    LET tbl == PaymentInsert(payments, users,
                             [order_id |-> meta.id, uid |-> meta.uid, amount |-> meta.amount])
        inserted == tbl # payments
    IN /\ payments' = tbl
       /\ Start(r, afterInsert([IdleReq EXCEPT !.op = "order_paid", !.uid = meta.uid,
                                    !.meta = meta, !.inserted = inserted],
                               inserted))
       /\ UNCHANGED <<users, nextUid, kv, issued, now, ms>>

\* handleOrderPaid after getUserInfo: the delta, then updateUserInfo(uid,
\* { pay: meta, delta }) up to its getUser
PayGetInfo(r) ==
  /\ req[r].pc = "pay_info"
  /\ LET found == getUser(users, Absent, req[r].uid)
         pay == IF found = {} THEN NoPay ELSE (CHOOSE u \in found : TRUE).info.pay
         delta == IF pay.present THEN proration(pay, req[r].meta) ELSE 0
     IN req' = [req EXCEPT ![r] =
                 [req[r] EXCEPT !.pc = "info_read", !.delta = delta,
                                !.infoUpdates = [avatar |-> None, pay |-> Some(req[r].meta),
                                                 delta |-> Some(delta)]]]
  /\ UNCHANGED <<users, nextUid, kv, issued, now, payments, ms>>

\* { ...currentInfo, ...infoUpdates } with the deltas added up
mergeInfoAddDelta(currentInfo, infoUpdates) ==
  [avatar |-> IF infoUpdates.avatar = None THEN currentInfo.avatar ELSE infoUpdates.avatar[1],
   pay |-> IF infoUpdates.pay = None THEN currentInfo.pay ELSE infoUpdates.pay[1],
   delta |-> IF infoUpdates.delta = None THEN currentInfo.delta
             ELSE Some(OrZero(currentInfo.delta) + infoUpdates.delta[1])]

\* { ...currentInfo, ...infoUpdates }
mergeInfo(currentInfo, infoUpdates) ==
  [avatar |-> IF infoUpdates.avatar = None THEN currentInfo.avatar ELSE infoUpdates.avatar[1],
   pay |-> IF infoUpdates.pay = None THEN currentInfo.pay ELSE infoUpdates.pay[1],
   delta |-> IF infoUpdates.delta = None THEN currentInfo.delta ELSE infoUpdates.delta]

\* POST /user/info/update: updateUserInfo(req.uid, req.body) up to its
\* getUser, for a request body of bodies
InfoUpdate(r, bodies) ==
  \E body \in bodies :
    /\ Start(r, [IdleReq EXCEPT !.op = "info_update", !.uid = UidStart,
                                !.pc = "info_read", !.infoUpdates = body])
    /\ UNCHANGED <<users, nextUid, kv, issued, now, payments, ms>>

\* updateUserInfo after getUser: the merged info
UpdateInfoRead(r) ==
  /\ req[r].pc = "info_read"
  /\ LET found == getUser(users, Absent, req[r].uid)
         currentInfo == (CHOOSE u \in found : TRUE).info
     IN req' = [req EXCEPT ![r] =
                 IF found = {} THEN Answer(req[r], "no-user", RetNull)
                 ELSE [req[r] EXCEPT !.pc = "info_write", !.currentInfo = currentInfo,
                         !.updatedInfo = mergeInfo(currentInfo, req[r].infoUpdates)]]
  /\ UNCHANGED <<users, nextUid, kv, issued, now, payments, ms>>

\* updateUserInfo: UPDATE users SET info = $1 WHERE uid = $2 RETURNING *
UpdateInfoWrite(r) ==
  /\ req[r].pc = "info_write"
  /\ LET found == RowWithUid(users, req[r].uid)
         row == CHOOSE u \in found : TRUE
         updatedUser == update_updated_at_column([row EXCEPT !.info = req[r].updatedInfo])
     IN IF found = {}
        THEN /\ req' = [req EXCEPT ![r] = Answer(req[r], "update-info-failed", RetNull)]
             /\ UNCHANGED users
        ELSE /\ users' = (users \ {row}) \cup {updatedUser}
             /\ req' = [req EXCEPT ![r] =
                         Answer(req[r], "code0", RetUser(StripPass(updatedUser)))]
  /\ UNCHANGED <<nextUid, kv, issued, now, payments, ms>>

\* proration over the prior snapshots, the events and the clock: one
\* event is delivered and handled
InitProration ==
  /\ \E info \in PriorInfos : users = {RegisteredUser(info)}
  /\ nextUid = UidStart + 1
  /\ kv = [k \in Keys |-> NoEntry]
  /\ issued = {}
  /\ now \in 0..MaxTicks
  /\ ms \in MsParts
  /\ req = [r \in Reqs |-> IdleReq]
  /\ payments = {[order_id |-> u.info.pay.id, uid |-> u.uid, amount |-> u.info.pay.amount] :
                   u \in {x \in users : x.info.pay.present}}

FirstReq == CHOOSE r \in Reqs : \A q \in Reqs : r <= q

NextProration ==
  \/ OrderPaid(FirstReq, PaidMetas)
  \/ PayGetInfo(FirstReq)
  \/ UpdateInfoRead(FirstReq)
  \/ UpdateInfoWrite(FirstReq)

SpecProration == InitProration /\ [][NextProration]_vars

\* concurrent order_paid events and info updates for one user, who has no
\* pay snapshot or the monthly plan at the start
InitPay ==
  /\ \E info \in {i \in PriorInfos : i.pay.endTime # EndNear /\ i.pay.name # <<"P", "r", "o", " ", "P", "l", "a", "n">>} :
       users = {RegisteredUser(info)}
  /\ nextUid = UidStart + 1
  /\ kv = [k \in Keys |-> NoEntry]
  /\ issued = {}
  /\ now = 0
  /\ ms = 0
  /\ req = [r \in Reqs |-> IdleReq]
  /\ payments = {[order_id |-> u.info.pay.id, uid |-> u.uid, amount |-> u.info.pay.amount] :
                   u \in {x \in users : x.info.pay.present}}

\* the events delivered concurrently are the two plans of Config
NextPay ==
  \/ \E r \in Reqs : OrderPaid(r, {m \in PaidMetas : m.id \in {"o1", "o2"}})
  \/ \E r \in Reqs : PayGetInfo(r)
  \/ \E r \in Reqs : InfoUpdate(r, InfoBodies)
  \/ \E r \in Reqs : UpdateInfoRead(r)
  \/ \E r \in Reqs : UpdateInfoWrite(r)

SpecPay == InitPay /\ [][NextPay]_vars

\* an order_paid event that carries no uid, next to one of Config's plans
OrderMetas ==
  { Meta(NoUid, "o5", <<"P", "l", "u", "s", " ", "P", "l", "a", "n", " ", "M", "o", "n", "t", "h", "l", "y">>, NoStr, Some(990), EndFar, <<"9", "9", "0", "|", "M">>) }
  \cup {m \in PaidMetas : m.id = "o2"}

\* request bodies of POST /user/info/update: any JSON object, among them
\* one that carries the keys pay and delta
EntitlementBodies ==
  InfoBodies \cup
  { [avatar |-> None,
     pay |-> Some(Meta(UidStart, "self", <<"U", "l", "t", "r", "a">>, NoStr, Some(0), EndFar, NoStr)),
     delta |-> Some(DayEnd)] }

\* payment events and info updates of any body for one user
NextOrders ==
  \/ \E r \in Reqs : OrderPaid(r, OrderMetas)
  \/ \E r \in Reqs : PayGetInfo(r)
  \/ \E r \in Reqs : InfoUpdate(r, EntitlementBodies)
  \/ \E r \in Reqs : UpdateInfoRead(r)
  \/ \E r \in Reqs : UpdateInfoWrite(r)

SpecOrders == InitPay /\ [][NextOrders]_vars

\* ------------------------------------------------------ account updates
\* POST /user/update: req.uid and the request body
UpdateInputs ==
  { [uid |-> UidStart, data |-> [NoFields EXCEPT !.level = Some(9)]],
    [uid |-> UidStart, data |-> [NoFields EXCEPT !.email = Some("c@d.com")]],
    [uid |-> UidStart + 1, data |-> [NoFields EXCEPT !.email = Some("a@b.com")]],
    [uid |-> UidStart, data |-> [NoFields EXCEPT !.email = Some("e@f.com"), !.frm = Some(2),
                                                 !.level = Some(9)]],
    [uid |-> UidStart + 1, data |-> [NoFields EXCEPT !.info = Some([NoInfo EXCEPT !.avatar = "new"]),
                                                     !.status = Some(0)]],
    [uid |-> UidStart + 2, data |-> [NoFields EXCEPT !.status = Some(0)]] }
\* req.uid of DELETE /user/delete: an account of the start, one not yet there
DeleteUids == {UidStart, UidStart + 2}

\* updateUser copying every key of updateData
allFields(updateData) == updateData

\* updateUser: the keys of updateData that are in allowedFields
allowedFields(updateData) == [updateData EXCEPT !.level = None]

\* UPDATE users SET <the keys of updateFields> on one row
setFields(row, f) ==
  [row EXCEPT !.email = IF f.email = None THEN @ ELSE f.email[1],
              !.frm = IF f.frm = None THEN @ ELSE f.frm[1],
              !.info = IF f.info = None THEN @ ELSE f.info[1],
              !.status = IF f.status = None THEN @ ELSE f.status[1],
              !.level = IF f.level = None THEN @ ELSE f.level[1]]

\* updateUser up to its first await
updateUser(rq, updateData) ==
  LET updateFields == allowedFields(updateData)
  IN IF updateFields = NoFields THEN Finish(rq, Throw("no valid update field"))
     ELSE [rq EXCEPT !.updateFields = updateFields,
                     !.pc = IF updateFields.email # None /\ ~Falsy(updateFields.email[1])
                            THEN "upd_check" ELSE "upd_write"]

\* POST /user/update
UserUpdate(r) ==
  \E in \in UpdateInputs :
    /\ Start(r, updateUser([IdleReq EXCEPT !.op = "user_update", !.uid = in.uid,
                                           !.updateData = in.data], in.data))
    /\ UNCHANGED <<users, nextUid, kv, issued, now, payments, ms>>

\* updateUser: SELECT uid FROM users WHERE email = $1 AND uid != $2
UpdCheck(r) ==
  /\ req[r].pc = "upd_check"
  /\ LET existingUser == {u \in RowWithEmail(users, req[r].updateFields.email[1]) :
                            u.uid # req[r].uid}
     IN req' = [req EXCEPT ![r] =
                 IF existingUser # {} THEN Finish(req[r], Throw("email used by another user"))
                 ELSE [req[r] EXCEPT !.pc = "upd_write"]]
  /\ UNCHANGED <<users, nextUid, kv, issued, now, payments, ms>>

\* updateUser: UPDATE users SET ... WHERE uid = $n RETURNING *; email is UNIQUE
UpdWrite(r) ==
  /\ req[r].pc = "upd_write"
  /\ LET f == req[r].updateFields
         found == RowWithUid(users, req[r].uid)
         row == CHOOSE u \in found : TRUE
         updatedUser == update_updated_at_column(setFields(row, f))
         taken == f.email # None /\ \E u \in users : u.uid # req[r].uid /\ u.email = f.email[1]
     IN IF found = {}
        THEN /\ req' = [req EXCEPT ![r] = Finish(req[r], Throw("user does not exist"))]
             /\ UNCHANGED users
        ELSE IF taken
        THEN /\ req' = [req EXCEPT ![r] = Finish(req[r], Throw("unique violation"))]
             /\ UNCHANGED users
        ELSE /\ users' = (users \ {row}) \cup {updatedUser}
             /\ req' = [req EXCEPT ![r] = Finish(req[r], RetUser(StripPass(updatedUser)))]
  /\ UNCHANGED <<nextUid, kv, issued, now, payments, ms>>

\* DELETE /user/delete: deleteUser(req.uid), which throws when no row matched
UserDelete(r) ==
  \E uid \in DeleteUids :
    /\ Start(r, Finish([IdleReq EXCEPT !.op = "user_delete", !.uid = uid],
                       IF RowWithUid(users, uid) = {} THEN Throw("user does not exist")
                       ELSE Ret("true", NoUser, "")))
    /\ users' = deleteUser(users, uid)
    /\ UNCHANGED <<nextUid, kv, issued, now, payments, ms>>

\* POST /user/password: req.uid and the request body
PasswordInputs ==
  { [uid |-> UidStart, oldPassword |-> "pw1", newPassword |-> "pw2"],
    [uid |-> UidStart, oldPassword |-> "pw2", newPassword |-> "pw1"],
    [uid |-> UidStart, oldPassword |-> "pw1", newPassword |-> Absent],
    [uid |-> UidStart + 2, oldPassword |-> "pw1", newPassword |-> "pw2"] }

\* POST /user/password: updatePassword up to its SELECT
PasswordChange(r) ==
  \E in \in PasswordInputs :
    /\ Start(r, LET rq == [IdleReq EXCEPT !.op = "password", !.uid = in.uid,
                                          !.password = in.oldPassword,
                                          !.finalPassword = in.newPassword]
                IN IF Falsy(in.oldPassword) \/ Falsy(in.newPassword)
                   THEN Finish(rq, Throw("old and new password required"))
                   ELSE [rq EXCEPT !.pc = "pw_read"])
    /\ UNCHANGED <<users, nextUid, kv, issued, now, payments, ms>>

\* updatePassword hashing the old password again
hashOfOld(rq, salt) == hashPassword(rq.password, salt)

\* updatePassword: const { hash } = this.hashPassword(newPassword)
hashOfNew(rq, salt) == hashPassword(rq.finalPassword, salt)

\* updatePassword: SELECT pass FROM users WHERE uid = $1, verifyPassword,
\* hashPassword(newPassword)
PwRead(r) ==
  /\ req[r].pc = "pw_read"
  /\ LET found == RowWithUid(users, req[r].uid)
     IN \E salt \in Salts :
          req' = [req EXCEPT ![r] =
            IF found = {} THEN Finish(req[r], Throw("user does not exist"))
            ELSE IF ~verifyPassword(req[r].password, (CHOOSE u \in found : TRUE).pass)
            THEN Finish(req[r], Throw("old password wrong"))
            ELSE [req[r] EXCEPT !.pc = "pw_write",
                                !.hash = hashOfNew(req[r], salt)]]
  /\ UNCHANGED <<users, nextUid, kv, issued, now, payments, ms>>

\* updatePassword: UPDATE users SET pass = $1 WHERE uid = $2
PwWrite(r) ==
  /\ req[r].pc = "pw_write"
  /\ users' = {IF u.uid = req[r].uid
               THEN update_updated_at_column([u EXCEPT !.pass = req[r].hash]) ELSE u :
               u \in users}
  /\ req' = [req EXCEPT ![r] = Finish(req[r], Ret("true", NoUser, ""))]
  /\ UNCHANGED <<nextUid, kv, issued, now, payments, ms>>

\* two accounts registered a second ago
InitAccount ==
  /\ users = {RegisteredUser([NoInfo EXCEPT !.avatar = "pic"]),
              [RegisteredUser(NoInfo) EXCEPT !.uid = UidStart + 1, !.email = "c@d.com"]}
  /\ nextUid = UidStart + 2
  /\ kv = [k \in Keys |-> NoEntry]
  /\ issued = {}
  /\ now = 1
  /\ req = [r \in Reqs |-> IdleReq]
  /\ payments = {}
  /\ ms = 0

\* the operations of the user service on the users table
NextAccount ==
  \/ \E r \in Reqs : Register(r)
  \/ \E r \in Reqs : CreateCheck(r)
  \/ \E r \in Reqs : CreateInsert(r)
  \/ \E r \in Reqs : UserUpdate(r)
  \/ \E r \in Reqs : UpdCheck(r)
  \/ \E r \in Reqs : UpdWrite(r)
  \/ \E r \in Reqs : UserDelete(r)
  \/ \E r \in Reqs : PasswordChange(r)
  \/ \E r \in Reqs : PwRead(r)
  \/ \E r \in Reqs : PwWrite(r)
  \/ \E r \in Reqs : InfoUpdate(r, InfoBodies)
  \/ \E r \in Reqs : UpdateInfoRead(r)
  \/ \E r \in Reqs : UpdateInfoWrite(r)

SpecAccount == InitAccount /\ [][NextAccount]_vars

\* ------------------------------------------------------- cache callers
\* the clock of the model starts when the service does, ServiceStart seconds
\* after the Unix epoch: a stored expire of 0 lies that far before now = 0
ServiceStart == 1
ZeroExpire == 0 - ServiceStart

\* what a caller of the cache writes: a value, and whether the write is
\* meant as a not-exists write
CacheWrites ==
  { [value |-> v, ifNotExists |-> b] :
      v \in {p \in Payloads : p.type \in {"google", "email"}}, b \in BOOLEAN }

\* no cache call is in flight
Quiet == \A q \in Reqs : req[q].pc \in {"idle", "done"}

\* a call of setKV(key, value, ttl): one INSERT ... ON CONFLICT DO UPDATE;
\* setKV takes no not-exists argument, so the caller's intent changes nothing.
\* A serial caller (serial = TRUE) awaits each call before the next.
CacheSet(r, serial) ==
  \E key \in Keys, w \in CacheWrites, ttl \in TTLs :
    /\ serial => Quiet
    /\ Start(r, [IdleReq EXCEPT !.op = "cache_set", !.pc = "done", !.OTT = key,
                                !.ifNotExists = w.ifNotExists,
                                !.res = [present |-> TRUE, value |-> w.value,
                                         expire |-> now + ttl]])
    /\ kv' = setKV(kv, key, w.value, ttl)
    /\ UNCHANGED <<users, nextUid, issued, now, payments, ms>>

\* a call of getKV(key) up to its SELECT
CacheGet(r, serial) ==
  \E key \in Keys :
    /\ serial => Quiet
    /\ Start(r, [IdleReq EXCEPT !.op = "cache_get", !.OTT = key, !.pc = "kv_select"])
    /\ UNCHANGED <<users, nextUid, kv, issued, now, payments, ms>>

\* the kv table when the service starts: empty, a row inserted with the
\* column default expire = 0, or a row written by setKV at that moment
InitCache ==
  /\ users = {}
  /\ nextUid = UidStart
  /\ kv \in [Keys -> {NoEntry}
                     \cup {[present |-> TRUE, value |-> w.value, expire |-> e] :
                             w \in CacheWrites, e \in {ZeroExpire} \cup {t : t \in TTLs}}]
  /\ issued = {}
  /\ now = 0
  /\ req = [r \in Reqs |-> IdleReq]
  /\ payments = {}
  /\ ms = 0

\* concurrent callers of the cache
NextCache ==
  \/ Tick
  \/ \E r \in Reqs : CacheSet(r, FALSE)
  \/ \E r \in Reqs : CacheGet(r, FALSE)
  \/ \E r \in Reqs : KvSelect(r)
  \/ \E r \in Reqs : KvCheck(r)
  \/ \E r \in Reqs : KvDel(r)

SpecCache == InitCache /\ [][NextCache]_vars

\* one caller that awaits every call
NextCacheSerial ==
  \/ Tick
  \/ \E r \in Reqs : CacheSet(r, TRUE)
  \/ \E r \in Reqs : CacheGet(r, TRUE)
  \/ \E r \in Reqs : KvSelect(r)
  \/ \E r \in Reqs : KvCheck(r)
  \/ \E r \in Reqs : KvDel(r)

SpecCacheSerial == InitCache /\ [][NextCacheSerial]_vars

\* ---------------------------------------------------------- transactions
\* finally { client.release() }: the wrapper of getClient calls the pool's
\* release once per call
releaseClient(tx) == [tx EXCEPT !.client = "released", !.releases = @ + 1]

\* a statement or the callback threw inside try: control is in catch, up to
\* the await of client.query('ROLLBACK')
catchError(rq, error) == [rq EXCEPT !.pc = "tx_rollback", !.tx.caught = error]

\* DB.transaction(callback) up to the await of client.query('BEGIN'):
\* getClient checks a client out of the pool, or pool.connect rejects
Transaction(r) ==
  \E connected \in BOOLEAN :
    /\ Start(r, LET rq == [IdleReq EXCEPT !.op = "transaction"]
                IN IF connected
                   THEN [rq EXCEPT !.pc = "tx_begin", !.tx.client = "out"]
                   ELSE Answer(rq, "thrown", Throw("connect-error")))
    /\ UNCHANGED <<users, nextUid, kv, issued, now, payments, ms>>

\* await client.query('BEGIN')
TxBegin(r) ==
  /\ req[r].pc = "tx_begin"
  /\ \E ok \in BOOLEAN :
       req' = [req EXCEPT ![r] =
                LET rq == [req[r] EXCEPT !.tx.last = "BEGIN"]
                IN IF ok THEN [rq EXCEPT !.pc = "tx_callback"]
                   ELSE catchError(rq, "begin-error")]
  /\ UNCHANGED <<users, nextUid, kv, issued, now, payments, ms>>

\* await callback(client)
TxCallback(r) ==
  /\ req[r].pc = "tx_callback"
  /\ \E ok \in BOOLEAN :
       req' = [req EXCEPT ![r] =
                IF ok THEN [req[r] EXCEPT !.pc = "tx_commit"]
                ELSE catchError(req[r], "callback-error")]
  /\ UNCHANGED <<users, nextUid, kv, issued, now, payments, ms>>

\* await client.query('COMMIT'), then return result through finally
TxCommit(r) ==
  /\ req[r].pc = "tx_commit"
  /\ \E ok \in BOOLEAN :
       req' = [req EXCEPT ![r] =
                LET rq == [req[r] EXCEPT !.tx.last = "COMMIT"]
                IN IF ok
                   THEN Answer([rq EXCEPT !.tx = releaseClient(rq.tx)], "result",
                               Ret("true", NoUser, ""))
                   ELSE catchError(rq, "commit-error")]
  /\ UNCHANGED <<users, nextUid, kv, issued, now, payments, ms>>

\* catch: await client.query('ROLLBACK'); throw error; then finally. When
\* ROLLBACK rejects, its error leaves catch in place of the one caught
TxRollback(r) ==
  /\ req[r].pc = "tx_rollback"
  /\ \E ok \in BOOLEAN :
       req' = [req EXCEPT ![r] =
                LET rq == [req[r] EXCEPT !.tx.last = "ROLLBACK"]
                IN Answer([rq EXCEPT !.tx = releaseClient(rq.tx)], "thrown",
                          Throw(IF ok THEN rq.tx.caught ELSE "rollback-error"))]
  /\ UNCHANGED <<users, nextUid, kv, issued, now, payments, ms>>

\* concurrent runs of DB.transaction
NextTx ==
  \/ \E r \in Reqs : Transaction(r)
  \/ \E r \in Reqs : TxBegin(r)
  \/ \E r \in Reqs : TxCallback(r)
  \/ \E r \in Reqs : TxCommit(r)
  \/ \E r \in Reqs : TxRollback(r)

SpecTx == Init /\ [][NextTx]_vars

\* ------------------------------------------------------------ the claims
IsOTTLogin(r) == Done(r) /\ req[r].op = "login_ott"
HandlerTypes == {"google", "maxthon", "email"}

\* C1: once handleOTT has resolved a token to a user, every later handleOTT
\* call with the same token (the same cache entry) returns null.
C1_SingleUse ==
  \A r1, r2 \in Reqs :
    ( /\ IsOTTLogin(r1) /\ IsOTTLogin(r2)
      /\ r1 \in req[r2].prior
      /\ req[r1].OTT = req[r2].OTT
      /\ req[r1].ret.kind = "user"
      /\ req[r2].res = req[r1].res )
    => req[r2].ret.kind = "null"

\* C2: of two login requests that carry the same OTT and run concurrently
\* (neither finished before the other started), at most one resolves a user
\* and is granted a session token.
C2_AtomicConsumption ==
  \A r1, r2 \in Reqs :
    ( /\ r1 # r2
      /\ IsOTTLogin(r1) /\ IsOTTLogin(r2)
      /\ r1 \notin req[r2].prior /\ r2 \notin req[r1].prior
      /\ req[r1].OTT = req[r2].OTT
      /\ req[r1].res.present /\ req[r2].res = req[r1].res )
    => ~( /\ req[r1].ret.kind = "user" /\ req[r1].token.minted
          /\ req[r2].ret.kind = "user" /\ req[r2].token.minted )

\* C3: two sequential ensureUser calls with the same email return the same
\* uid, and exactly one row holds that email afterwards.
C3_EnsureIdempotent ==
  \A r1, r2 \in Reqs :
    ( /\ Done(r1) /\ Done(r2)
      /\ req[r1].op = "ensure" /\ req[r2].op = "ensure"
      /\ r1 \in req[r2].prior
      /\ ~Falsy(req[r1].email)
      /\ req[r1].email = req[r2].email
      /\ req[r1].uid = req[r2].uid /\ req[r1].frm = req[r2].frm )
    => /\ req[r1].ret.kind = "user" /\ req[r2].ret.kind = "user"
       /\ req[r1].ret.user.uid = req[r2].ret.user.uid
       /\ Cardinality(RowWithEmail(users, req[r1].email)) = 1

\* a step of request r inside createUser
InCreate(r) == req[r].pc \in {"create_check", "create_insert"} /\ req'[r] # req[r]

\* C4: a createUser step that finds its email in the table (at the pre-check
\* or at the insert) fails with an error and leaves the table as it is: no
\* row is inserted and the existing row is unchanged.
C4_DuplicateEmailFails ==
  [][\A r \in Reqs :
       (InCreate(r) /\ \E u \in users : u.email = req[r].cEmail)
       => /\ users' = users
          /\ req'[r].pc = "done"
          /\ req'[r].ret.kind = "throw"]_vars

C4_Witness ==
  \E r \in Reqs : Done(r) /\ req[r].op = "register" /\ req[r].ret.err = "email taken"

\* C5: no two rows share an email, and when two creations of the same email
\* both passed the existence pre-check, exactly one row holds that email.
C5_UniqueEmail ==
  /\ \A u1, u2 \in users : u1.email = u2.email => u1 = u2
  /\ \A r1, r2 \in Reqs :
       ( /\ r1 # r2 /\ Done(r1) /\ Done(r2)
         /\ req[r1].hash # NoPass /\ req[r2].hash # NoPass
         /\ req[r1].cEmail = req[r2].cEmail )
       => Cardinality(RowWithEmail(users, req[r1].cEmail)) = 1

C5_Witness ==
  \E r1, r2 \in Reqs :
    /\ r1 # r2 /\ Done(r1) /\ Done(r2)
    /\ req[r1].hash # NoPass /\ req[r2].hash # NoPass
    /\ req[r1].cEmail = req[r2].cEmail
    /\ req[r1].ret.kind = "user"
    /\ req[r2].ret.err = "unique violation"
    /\ Cardinality(users) = 1

\* C6: authenticateUser with both fields present returns the user without
\* pass when an active row with that email exists and the password verifies,
\* and returns null without throwing otherwise.
C6_Authenticate ==
  [][\A r \in Reqs :
       ( /\ req[r].pc = "idle" /\ req'[r].op = "login_pw"
         /\ ~Falsy(req'[r].email) /\ ~Falsy(req'[r].password) )
       => LET ok == {u \in users : /\ u.email = req'[r].email
                                   /\ u.status = 1
                                   /\ verifyPassword(req'[r].password, u.pass)}
          IN IF ok = {} THEN req'[r].ret = RetNull
             ELSE /\ req'[r].ret.kind = "user"
                  /\ req'[r].ret.user \in {StripPass(u) : u \in ok}]_vars

\* a step of request r that continues handleOTT on a live cache entry
OnLiveEntry(r) ==
  /\ req[r].pc = "kv_check" /\ req'[r] # req[r]
  /\ req[r].res.present /\ ~(req[r].res.expire < now)

\* C7: handleOTT on a payload whose type is none of google, maxthon, email
\* returns null, creates no user, and the login route mints no token.
C7_UnknownType ==
  [][\A r \in Reqs :
       (OnLiveEntry(r) /\ req[r].res.value.type \notin HandlerTypes)
       => /\ req'[r].ret.kind = "null"
          /\ ~req'[r].token.minted
          /\ users' = users]_vars

\* C8: handleOTT on a maxthon payload without email goes on to ensure the
\* user of the sentinel address with frm = 2; it does not fail.
C8_MaxthonSentinel ==
  [][\A r \in Reqs :
       ( /\ OnLiveEntry(r)
         /\ req[r].res.value.type = "maxthon"
         /\ Falsy(req[r].res.value.email) )
       => /\ req'[r].pc = "ensure_get"
          /\ req'[r].cEmail = SentinelEmail
          /\ req'[r].cFrm = 2]_vars

\* C9: handleOTT on a token with no cache entry, or with an expired entry,
\* returns null (after deleting the expired entry) and changes no user row.
C9_AbsentOrExpired ==
  [][\A r \in Reqs :
       /\ ( /\ req[r].pc = "kv_check" /\ req'[r] # req[r]
            /\ ~req[r].res.present )
          => /\ req'[r].pc = "done" /\ req'[r].ret = RetNull
             /\ ~req'[r].token.minted
             /\ users' = users
       /\ ( /\ req[r].pc = "kv_check" /\ req'[r] # req[r]
            /\ req[r].res.present /\ req[r].res.expire < now )
          => /\ req'[r].pc = "kv_del"
             /\ users' = users
       /\ (req[r].pc = "kv_del" /\ req'[r] # req[r])
          => /\ req'[r].pc = "done" /\ req'[r].ret = RetNull
             /\ ~req'[r].token.minted
             /\ users' = users]_vars

C9_Witness ==
  \E r1, r2 \in Reqs :
    /\ IsOTTLogin(r1) /\ ~req[r1].res.present /\ req[r1].ret = RetNull
    /\ IsOTTLogin(r2) /\ req[r2].res.present
    /\ req[r2].res.value.type = "google"
    /\ req[r2].ret = RetNull
    /\ users = {}

\* C10: createUser called with an empty email, or without a password and
\* with frm 0 or absent, throws and inserts no row; a user it returns has
\* no pass field and is a row of the table.
C10_CreateValidation ==
  [][\A r \in Reqs :
       /\ ( /\ req[r].pc = "idle" /\ req'[r].op = "register"
            /\ \/ Falsy(req'[r].email)
               \/ Falsy(req'[r].password) /\ req'[r].frm \in {None, Some(0)} )
          => /\ req'[r].pc = "done" /\ req'[r].ret.kind = "throw"
             /\ users' = users
       /\ ( /\ req[r].pc = "ensure_get" /\ req'[r] # req[r]
            /\ getUser(users, req[r].cEmail, req[r].uid) = {}
            /\ req[r].cFrm = 0 )
          => /\ req'[r].pc = "done" /\ req'[r].ret.kind = "throw"
             /\ users' = users
       /\ ( /\ req[r].pc = "create_insert"
            /\ req'[r].pc = "done" /\ req'[r].ret.kind = "user" )
          => /\ req'[r].ret.user.pass = NoPass
             /\ \E u \in users' : /\ u \notin users
                                  /\ StripPass(u) = req'[r].ret.user
                                  /\ u.pass # NoPass]_vars

C10_Witness ==
  \E r1, r2 \in Reqs :
    /\ Done(r1) /\ req[r1].op = "register"
    /\ req[r1].frm = Some(0) /\ req[r1].ret.err = "password required"
    /\ Done(r2) /\ req[r2].op = "register"
    /\ req[r2].ret.kind = "user" /\ req[r2].ret.user.pass = NoPass

\* C11: ensureUser called with an email that resolves no existing row goes
\* on to create a user whose frm is the supplied frm (0 when none is
\* supplied), with a generated password when frm > 0, instead of failing;
\* and the insert of that user returns the new row with that frm and the
\* hash of the generated password.
C11_EnsureCreates ==
  [][\A r \in Reqs :
       /\ ( /\ req[r].pc = "ensure_get" /\ req'[r] # req[r]
            /\ ~Falsy(req[r].cEmail)
            /\ getUser(users, req[r].cEmail, req[r].uid) = {} )
          => /\ req'[r].pc = "create_check"
             /\ req'[r].cFrm = OrZero(req[r].frm)
             /\ (req'[r].cFrm > 0 => req'[r].finalPassword \in RandomPasswords)
       /\ ( /\ req[r].pc = "create_insert" /\ req'[r] # req[r]
            /\ req[r].op = "ensure"
            /\ RowWithEmail(users, req[r].cEmail) = {} )
          => /\ req'[r].ret.kind = "user"
             /\ req'[r].ret.user.frm = OrZero(req[r].frm)
             /\ \E u \in users' \ users :
                  /\ StripPass(u) = req'[r].ret.user
                  /\ (u.frm > 0 =>
                        \E salt \in Salts, g \in RandomPasswords :
                          u.pass = hashPassword(g, salt))]_vars

\* a GET /user/info step of request r that found the user's row
PlanStep(r) ==
  req[r].pc = "idle" /\ req'[r].op = "user_info" /\ req'[r].ret.kind = "user"
\* the name getPlan classifies: pay.name, or pay.product when the name is
\* missing or empty
PlanNameOf(pay) == IF pay.name \in {NoStr, <<>>} THEN pay.product ELSE pay.name
PaidTiers == <<"basic", "pro", "plus", "ultra">>
TierWords == <<KW_BASIC, KW_PRO, KW_PLUS, KW_ULTRA>>

C13_Priority ==
  [][\A r \in Reqs :
       ( /\ PlanStep(r)
         /\ req'[r].ret.user.info.pay.present
         /\ ~(req'[r].ret.user.info.pay.endTime * 1000 < now * 1000 + ms)
         /\ PlanNameOf(req'[r].ret.user.info.pay) # NoStr )
       => LET lower == toLowerCase(PlanNameOf(req'[r].ret.user.info.pay))
              held == {i \in 1..Len(TierWords) : includes(lower, TierWords[i])}
          IN /\ req'[r].plan.kind = "plan"
             /\ req'[r].plan.name =
                  IF held = {} THEN "free"
                  ELSE PaidTiers[CHOOSE i \in held : \A j \in held : i <= j]]_vars

\* a name with ultra before basic, in mixed case, was classified as basic
C13_Witness ==
  \E r \in Reqs :
    /\ Done(r) /\ req[r].op = "user_info" /\ req[r].ret.kind = "user"
    /\ includes(toLowerCase(req[r].ret.user.info.pay.name), KW_ULTRA)
    /\ includes(toLowerCase(req[r].ret.user.info.pay.name), KW_BASIC)
    /\ ~includes(req[r].ret.user.info.pay.name, KW_BASIC)
    /\ req[r].plan.name = "basic"

\* C14: getPlan for a user whose unexpired info.pay has neither a name nor
\* a product returns { name: 'free' } and does not fail.
C14_NamelessIsFree ==
  [][\A r \in Reqs :
       ( /\ PlanStep(r)
         /\ req'[r].ret.user.info.pay.present
         /\ ~(req'[r].ret.user.info.pay.endTime * 1000 < now * 1000 + ms)
         /\ req'[r].ret.user.info.pay.name = NoStr
         /\ req'[r].ret.user.info.pay.product = NoStr )
       => /\ req'[r].plan.kind = "plan" /\ req'[r].plan.name = "free"
          /\ req'[r].resp = "result"]_vars

\* --- proration claims
\* the step of request r at which handleOrderPaid computes its delta for a
\* user that has a prior pay snapshot, and that snapshot
DeltaStep(r) ==
  /\ req[r].pc = "pay_info" /\ req'[r].pc = "info_read"
  /\ \E u \in RowWithUid(users, req[r].uid) : u.info.pay.present
PriorPay(r) == (CHOOSE u \in RowWithUid(users, req[r].uid) : TRUE).info.pay

\* exact integer arithmetic on <<lo, hi>>: a * b * c, and P \div Q
WOfLimbs(P) == <<BitsAt(P, 0, HalfBits), BitsAt(P, HalfBits, HalfBits)>>
WMul3(a, b, c) ==
  WOfLimbs(BigMul(Limbs(WOfLimbs(BigMul(Limbs(W(a)), Limbs(W(b))))), Limbs(W(c))))
RECURSIVE WDivLoop(_, _, _)
WDivLoop(P, Q, st) == IF st.i < 0 THEN st.q ELSE WDivLoop(P, Q, DivStep(P, Q, st))
WDiv(P, Q) ==
  LET q == WDivLoop(P, Q, [i |-> WBitLen(P) - 1, R |-> W(0), q |-> W(0), n |-> 0])
  IN q[1] + q[2] * Half

\* cycle lengths in days; remaining seconds are remaining milliseconds / 1000
SecPerDay == 24 * 60 * 60
\* floor(remainingSeconds * oldAmount * newCycle / (oldCycle * newAmount)),
\* or 0 unless remainingSeconds and both amounts are positive
ExactDelta(remMs, oldAmount, oldCycle, newAmount, newCycle) ==
  IF remMs > 0 /\ oldAmount > 0 /\ newAmount > 0
  THEN WDiv(WMul3(remMs, oldAmount, newCycle \div SecPerDay),
            WMul3(1000, oldCycle \div SecPerDay, newAmount))
  ELSE 0

\* C15: when a user with a prior pay snapshot receives a payment, the delta
\* is floor(remainingSeconds * oldAmount * newCycleSeconds /
\* (oldCycleSeconds * newAmount)) if remainingSeconds > 0 and both amounts
\* are positive, and 0 otherwise (the cycles being the ones the handler
\* inferred); in particular 1576800 for old 990 monthly with 1296000 s
\* remaining and new 9900 yearly.
C15_ProrationValue ==
  [][\A r \in Reqs :
       DeltaStep(r) =>
         /\ req'[r].delta =
              ExactDelta(PriorPay(r).endTime * 1000 - (now * 1000 + ms),
                         OrZero(PriorPay(r).amount), oldCycleSecOf(PriorPay(r)),
                         newAmountOf(req[r].meta), newCycleSecOf(req[r].meta))
         /\ ( /\ PriorPay(r).amount = Some(990) /\ oldCycleSecOf(PriorPay(r)) = monthSec
              /\ PriorPay(r).endTime * 1000 - (now * 1000 + ms) = EndFar * 1000
              /\ req[r].meta.amount = Some(9900) /\ newCycleSecOf(req[r].meta) = yearSec )
            => req'[r].delta = 1576800]_vars

\* the cycle rule of the specification, applied to a plan's name and price
UniformCycle(plan) == inferCycleSec(plan.name, plan.price)

\* C16: the billing cycle of the old plan is inferred by the same rule as
\* that of the new plan (name first, then the price tag, else 30 days): the
\* delta is the one computed with the old cycle inferred from the old
\* plan's name and price, so an old plan with neither word in its name and
\* a price tagged |Y counts as yearly.
C16_SameCycleRule ==
  [][\A r \in Reqs :
       ( /\ DeltaStep(r)
         /\ PriorPay(r).endTime * 1000 - (now * 1000 + ms) > 0
         /\ OrZero(PriorPay(r).amount) > 0 /\ newAmountOf(req[r].meta) > 0 )
       => req'[r].delta =
            MathFloor(DMul(DOfRatio(PriorPay(r).endTime * 1000 - (now * 1000 + ms), 1000),
                           DDiv(DOfRatio(OrZero(PriorPay(r).amount), UniformCycle(PriorPay(r))),
                                DOfRatio(newAmountOf(req[r].meta),
                                         UniformCycle(req[r].meta)))))]_vars

\* the prices per second the handler compares, cross-multiplied in days:
\* new < old, and new > old
Cheaper(pay, meta) ==
  newAmountOf(meta) * (oldCycleSecOf(pay) \div SecPerDay)
    < OrZero(pay.amount) * (newCycleSecOf(meta) \div SecPerDay)
Dearer(pay, meta) ==
  newAmountOf(meta) * (oldCycleSecOf(pay) \div SecPerDay)
    > OrZero(pay.amount) * (newCycleSecOf(meta) \div SecPerDay)
HasCredit(pay, meta) ==
  /\ pay.endTime * 1000 - (now * 1000 + ms) > 0
  /\ OrZero(pay.amount) > 0 /\ newAmountOf(meta) > 0

WriteStep(r) ==
  /\ req[r].pc = "info_write" /\ req'[r].pc = "done"
  /\ RowWithUid(users, req[r].uid) # {}
RowAfter(r) == CHOOSE u \in RowWithUid(users', req[r].uid) : TRUE

\* C17: when handleOrderPaid succeeds, the stored info.pay is the event's
\* meta and the stored info.delta is the delta computed for this event (it
\* replaces the previous delta); the delta computed for a user with no
\* prior pay is 0; every other key of info is written back as the handler
\* read it.
C17_PayFrame ==
  [][\A r \in Reqs :
       /\ (WriteStep(r) /\ req[r].op = "order_paid") =>
            /\ req'[r].resp = "code0"
            /\ RowAfter(r).info.pay = req[r].meta
            /\ RowAfter(r).info.delta = Some(req[r].delta)
            /\ RowAfter(r).info.avatar = req[r].currentInfo.avatar
            /\ \A u \in users : u.uid # req[r].uid => u \in users'
       /\ ( /\ req[r].pc = "pay_info" /\ req'[r].pc = "info_read"
            /\ \A u \in RowWithUid(users, req[r].uid) : ~u.info.pay.present )
          => req'[r].delta = 0]_vars

\* an event for a user with a prior pay and a stored delta of 3600 was
\* applied: its own delta, not 3600 more, is stored, and the avatar is kept
C17_Witness ==
  \E r \in Reqs, u \in users :
    /\ Done(r) /\ req[r].op = "order_paid" /\ req[r].resp = "code0"
    /\ req[r].currentInfo.delta = Some(3600)
    /\ req[r].delta > 0
    /\ u.uid = req[r].uid
    /\ u.info.pay = req[r].meta
    /\ u.info.delta = Some(req[r].delta)
    /\ u.info.avatar = "pic"

\* C19: a rejected payment insert (a duplicate order_id) does not stop
\* handleOrderPaid for an existing uid: it goes on to update info.pay and
\* info.delta and returns the update result.
C19_InsertFailureTolerated ==
  \A r \in Reqs :
    ( /\ req[r].op = "order_paid" /\ ~req[r].inserted
      /\ RowWithUid(users, req[r].uid) # {} )
    => /\ req[r].pc \in {"pay_info", "info_read", "info_write", "done"}
       /\ Done(r) =>
            /\ req[r].resp = "code0"
            /\ req[r].ret.kind = "user"
            /\ req[r].ret.user.info.pay = req[r].meta
            /\ req[r].ret.user.info.delta = Some(req[r].delta)

\* an event whose order_id was already recorded was applied all the same
C19_Witness ==
  \E r \in Reqs :
    /\ Done(r) /\ req[r].op = "order_paid" /\ ~req[r].inserted
    /\ \E p \in payments : p.order_id = req[r].meta.id
    /\ req[r].resp = "code0"
    /\ req[r].ret.user.info.pay = req[r].meta

\* C20: a set with ifNotExists on a key that holds an unexpired entry
\* leaves that entry's value and expiry unchanged, in every order in which
\* concurrent writers reach the table.
C20_NotExistsWrite ==
  [][\A r \in Reqs :
       ( /\ req[r].pc = "idle" /\ req'[r].op = "cache_set"
         /\ req'[r].ifNotExists
         /\ kv[req'[r].OTT].present
         /\ ~(kv[req'[r].OTT].expire < now) )
       => kv'[req'[r].OTT] = kv[req'[r].OTT]]_vars

\* getKV called directly returns to its caller in this step
GetReturns(r) ==
  req[r].pc \in {"kv_check", "kv_del"} /\ req'[r].pc = "done" /\ req[r].op = "cache_get"
\* the setKV calls on r's key that had returned when r started, and the
\* last of them
SetsBefore(r) == {s \in req[r].prior : req[s].op = "cache_set" /\ req[s].OTT = req[r].OTT}
LastSet(r) == {s \in SetsBefore(r) : \A t \in SetsBefore(r) \ {s} : t \in req[s].prior}

\* C21: for a caller that awaits each cache call, a getKV after
\* setKV(key, value, ttl) returns value when the time at which it compares
\* is before the expiry instant of that setKV; when it is after, getKV
\* returns null and the entry is no longer in the table.
C21_LazyExpiry ==
  [][\A r \in Reqs : GetReturns(r) =>
       \A s \in LastSet(r) :
         /\ now < req[s].res.expire => req'[r].got = [kind |-> "value", value |-> req[s].res.value]
         /\ now > req[s].res.expire =>
              req'[r].got.kind = "null" /\ ~kv'[req[r].OTT].present]_vars

\* a getKV that came after the expiry of the last write returned null and
\* removed the entry
C21_Witness ==
  \E r \in Reqs, s \in Reqs :
    /\ Done(r) /\ req[r].op = "cache_get" /\ s \in req[r].prior
    /\ req[s].op = "cache_set" /\ req[s].OTT = req[r].OTT
    /\ req[s].res.expire < now
    /\ req[r].res = req[s].res
    /\ req[r].got.kind = "null" /\ ~kv[req[r].OTT].present

\* C22: a getKV that reads an entry whose stored expire is 0 returns its
\* value and leaves the table as it is.
C22_ZeroNeverExpires ==
  [][\A r \in Reqs :
       ( /\ GetReturns(r)
         /\ req[r].res.present /\ req[r].res.expire = ZeroExpire )
       => /\ req'[r].got = [kind |-> "value", value |-> req[r].res.value]
          /\ kv' = kv]_vars

\* C23: the delete of a lazy expiry never removes an unexpired entry: when
\* a getKV that read an expired entry deletes, an entry of its key that is
\* not expired stays in the table.
C23_DeleteSparesFresh ==
  [][\A r \in Reqs :
       ( /\ req[r].pc = "kv_del" /\ req'[r].pc # "kv_del"
         /\ req[r].res.expire # ZeroExpire
         /\ kv[req[r].OTT].present
         /\ ~(kv[req[r].OTT].expire < now) )
       => kv'[req[r].OTT] = kv[req[r].OTT]]_vars

\* the keys that r's mutation set and q's did not hold r's values in info
EffectKept(r, q, info) ==
  /\ (req[r].infoUpdates.avatar # None /\ req[q].infoUpdates.avatar = None)
       => info.avatar = req[r].infoUpdates.avatar[1]
  /\ (req[r].infoUpdates.pay # None /\ req[q].infoUpdates.pay = None)
       => info.pay = req[r].infoUpdates.pay[1]
  /\ (req[r].infoUpdates.delta # None /\ req[q].infoUpdates.delta = None)
       => info.delta = req[r].infoUpdates.delta

\* C24: when two info mutations of one uid (updateUserInfo calls, or an
\* updateUserInfo and a handleOrderPaid) have both succeeded, the stored
\* info holds the effect of both.
C24_NoLostUpdate ==
  \A r \in Reqs, q \in Reqs :
    ( /\ r # q /\ Done(r) /\ Done(q)
      /\ req[r].resp = "code0" /\ req[q].resp = "code0"
      /\ req[r].uid = req[q].uid )
    => \A u \in RowWithUid(users, req[r].uid) :
         EffectKept(r, q, u.info) /\ EffectKept(q, r, u.info)

\* C25: every session token minted by a route carries
\* expire = create + 30 days (both in seconds here, milliseconds / 1000).
C25_TokenLifetime ==
  \A r \in Reqs :
    req[r].token.minted => req[r].token.expire = req[r].token.create + 30 * 24 * 3600

IsHash(r) == Done(r) /\ req[r].op = "hash"

\* C26: verifyPassword(p, hashPassword(p, salt).hash) is true and
\* verifyPassword(q, hashPassword(p, salt).hash) is false for q # p, for
\* every salt, generated or supplied; two hashes of p under different salts
\* are different strings.
C26_RoundTrip ==
  /\ \A r \in Reqs : IsHash(r) =>
       req[r].verified = IF req[r].candidate = req[r].password THEN "true" ELSE "false"
  /\ \A r \in Reqs, q \in Reqs :
       (IsHash(r) /\ IsHash(q) /\ req[r].password = req[q].password
          /\ req[r].salt # req[q].salt)
       => req[r].hash # req[q].hash

IsVerify(r) == Done(r) /\ req[r].op = "verify"
\* the parts of a stored text around its first and second ":"
HasColon(s) == \E i \in 1..Len(s) : s[i] = ":"
EmptySalt(s) == Len(s) > 0 /\ s[1] = ":"
EmptyKey(s) ==
  \E i \in 1..Len(s) :
    /\ s[i] = ":" /\ \A j \in 1..(i - 1) : s[j] # ":"
    /\ (i = Len(s) \/ s[i + 1] = ":")

\* C27: verifyPassword returns false, and does not throw, for a stored value
\* that is missing, not a string, without ":", or with an empty salt or an
\* empty key part.
C27_MalformedFalse ==
  \A r \in Reqs :
    ( /\ IsVerify(r)
      /\ \/ req[r].hash \in {NoPass, NotString}
         \/ ~HasColon(req[r].hash)
         \/ EmptySalt(req[r].hash)
         \/ EmptyKey(req[r].hash) )
    => req[r].verified = "false"

\* C27 as amended: false, without a throw, for a stored value that is
\* missing, not a string, without ":", or with an empty key part; a value
\* with an empty salt is verified like any other.
C27_MalformedFalseKeyed ==
  \A r \in Reqs :
    ( /\ IsVerify(r)
      /\ \/ req[r].hash \in {NoPass, NotString}
         \/ ~HasColon(req[r].hash)
         \/ EmptyKey(req[r].hash) )
    => req[r].verified = "false"

\* verifyPassword has answered on a text without ":" and on a value that
\* is not a string
C27_Witness ==
  \E r \in Reqs, q \in Reqs :
    /\ IsVerify(r) /\ req[r].hash = <<"s", "1">> /\ req[r].candidate = "pw1"
    /\ req[r].verified = "false"
    /\ IsVerify(q) /\ req[q].hash = <<"<not-a-string>">> /\ req[q].verified = "false"

\* DELETE /user/delete is answered in this step
DeleteStep(r) == req[r].pc = "idle" /\ req'[r].op = "user_delete"

\* C28: no operation of the user service removes a uid from the users
\* table; deleteUser(uid) sets that row's status to 0 and changes no other
\* column of any row, and fails, changing nothing, when no row has the uid.
C28_NeverRemoved ==
  [][/\ \A u \in users : \E v \in users' : v.uid = u.uid
     /\ \A r \in Reqs : DeleteStep(r) =>
          IF \E u \in users : u.uid = req'[r].uid
          THEN /\ req'[r].resp = "result"
               /\ users' = {IF u.uid = req'[r].uid THEN [u EXCEPT !.status = 0] ELSE u :
                              u \in users}
          ELSE /\ req'[r].resp = "internal-server-error"
               /\ users' = users]_vars

\* C28 as amended: as above, but deleteUser also leaves the time of the
\* statement in the row's updated_at (the update trigger of the table).
C28_NeverRemovedStamped ==
  [][/\ \A u \in users : \E v \in users' : v.uid = u.uid
     /\ \A r \in Reqs : DeleteStep(r) =>
          IF \E u \in users : u.uid = req'[r].uid
          THEN /\ req'[r].resp = "result"
               /\ users' = {IF u.uid = req'[r].uid
                            THEN [u EXCEPT !.status = 0, !.updated_at = now] ELSE u :
                              u \in users}
          ELSE /\ req'[r].resp = "internal-server-error"
               /\ users' = users]_vars

\* one delete has succeeded and its row is still there with status 0, and
\* a delete of an unknown uid has failed
C28_Witness ==
  \E r \in Reqs, q \in Reqs :
    /\ Done(r) /\ req[r].op = "user_delete" /\ req[r].resp = "result"
    /\ \E u \in users : u.uid = req[r].uid /\ u.status = 0 /\ u.email = "a@b.com"
    /\ Done(q) /\ req[q].op = "user_delete" /\ req[q].resp = "internal-server-error"
    /\ Cardinality(users) = 2

\* a soft-deleted row of another uid holds the email
Reserved(email, uid) == \E u \in users : u.email = email /\ u.status = 0 /\ u.uid # uid

\* C29: while a soft-deleted row holds an email, a createUser with that
\* email fails and an updateUser of another user to that email fails; the
\* table is unchanged.
C29_DeletedReservesEmail ==
  [][\A r \in Reqs :
       /\ ( /\ req[r].pc \in {"create_check", "create_insert"} /\ req'[r] # req[r]
            /\ Reserved(req[r].cEmail, NoUid) )
          => req'[r].pc = "done" /\ req'[r].ret.kind = "throw" /\ users' = users
       /\ ( /\ req[r].pc \in {"upd_check", "upd_write"} /\ req'[r] # req[r]
            /\ req[r].updateFields.email # None
            /\ Reserved(req[r].updateFields.email[1], req[r].uid) )
          => req'[r].pc = "done" /\ req'[r].ret.kind = "throw" /\ users' = users]_vars

\* after a successful delete of the account a@b.com, a registration with
\* that email was refused
C29_Witness ==
  \E r \in Reqs, q \in Reqs :
    /\ Done(q) /\ req[q].op = "user_delete" /\ req[q].resp = "result"
    /\ Done(r) /\ req[r].op = "register" /\ q \in req[r].prior
    /\ req[r].cEmail = "a@b.com" /\ req[r].ret.kind = "throw"
    /\ Reserved("a@b.com", NoUid)

\* the row of r's uid before a step, and what updateUser may make of it:
\* email, frm, info and status from the keys of fields
OwnRow(r) == CHOOSE u \in users : u.uid = req[r].uid
Updated(row, fields) ==
  [row EXCEPT !.email = IF fields.email = None THEN @ ELSE fields.email[1],
              !.frm = IF fields.frm = None THEN @ ELSE fields.frm[1],
              !.info = IF fields.info = None THEN @ ELSE fields.info[1],
              !.status = IF fields.status = None THEN @ ELSE fields.status[1]]
NoneOfFour(data) ==
  data.email = None /\ data.frm = None /\ data.info = None /\ data.status = None
UpdateEnds(r) ==
  /\ req'[r].op = "user_update" /\ req'[r].pc = "done" /\ req[r].pc # "done"

\* C30: updateUser(uid, data) changes, in the row of uid only, the columns
\* email, frm, info and status that data holds and nothing else; it fails
\* and changes nothing when data holds none of the four or when the new
\* email is that of another uid.
C30_UpdateFrame ==
  [][\A r \in Reqs :
       /\ (req'[r].op = "user_update" /\ req'[r] # req[r] /\ ~UpdateEnds(r))
            => users' = users
       /\ UpdateEnds(r) =>
            /\ req'[r].ret.kind \in {"user", "throw"}
            /\ req'[r].ret.kind = "throw" => users' = users
            /\ req'[r].ret.kind = "user" =>
                 users' = (users \ {OwnRow(r)}) \cup {Updated(OwnRow(r), req'[r].updateData)}
            /\ ( \/ NoneOfFour(req'[r].updateData)
                 \/ /\ req'[r].updateData.email # None
                    /\ \E u \in users : u.uid # req'[r].uid
                                        /\ u.email = req'[r].updateData.email[1] )
               => req'[r].ret.kind = "throw"]_vars

\* C30 as amended: as above, and the row also gets the time of the
\* statement in updated_at (the update trigger of the table).
C30_UpdateFrameStamped ==
  [][\A r \in Reqs :
       /\ (req'[r].op = "user_update" /\ req'[r] # req[r] /\ ~UpdateEnds(r))
            => users' = users
       /\ UpdateEnds(r) =>
            /\ req'[r].ret.kind \in {"user", "throw"}
            /\ req'[r].ret.kind = "throw" => users' = users
            /\ req'[r].ret.kind = "user" =>
                 users' = (users \ {OwnRow(r)})
                          \cup {[Updated(OwnRow(r), req'[r].updateData) EXCEPT !.updated_at = now]}
            /\ ( \/ NoneOfFour(req'[r].updateData)
                 \/ /\ req'[r].updateData.email # None
                    /\ \E u \in users : u.uid # req'[r].uid
                                        /\ u.email = req'[r].updateData.email[1] )
               => req'[r].ret.kind = "throw"]_vars

\* an update with email, frm and a key outside the four has succeeded and
\* one with only such a key has failed
C30_Witness ==
  \E r \in Reqs, q \in Reqs :
    /\ Done(r) /\ req[r].op = "user_update" /\ req[r].ret.kind = "user"
    /\ req[r].updateData.level # None
    /\ \E u \in users : u.uid = req[r].uid /\ u.email = "e@f.com" /\ u.frm = 2 /\ u.level = 0
    /\ Done(q) /\ req[q].op = "user_update" /\ req[q].ret.kind = "throw"
    /\ NoneOfFour(req[q].updateData)

\* C31: handleOrderPaid with a meta that has no uid returns the error no-uid
\* and leaves every user row unchanged.
C31_NoUidLeavesUsers ==
  [][\A r \in Reqs :
       (req[r].pc = "idle" /\ req'[r].op = "order_paid" /\ req'[r].meta.uid = NoUid)
       => (req'[r].pc = "done" /\ req'[r].resp = "no-uid" /\ users' = users)]_vars

\* an event without a uid was handled, its payment recorded
C31_Witness ==
  \E r \in Reqs :
    /\ Done(r) /\ req[r].op = "order_paid" /\ req[r].meta.uid = NoUid
    /\ req[r].resp = "no-uid" /\ req[r].inserted
    /\ \E u \in users : u.info.pay.present

\* C32: when getPlan has returned a non-free plan with endTime E for a user,
\* then with no payment in between getPlan returns that same plan at every
\* time before E, the times between pay.endTime and pay.endTime + delta
\* included.
C32_CreditExtends ==
  [][\A r1, r2 \in Reqs :
       ( /\ Done(r1) /\ req[r1].op = "user_info" /\ req[r1].plan.hasEnd
         /\ req[r2].pc = "idle" /\ req'[r2].op = "user_info"
         /\ req'[r2].uid = req[r1].uid
         /\ DateNow < req[r1].plan.endTime * 1000 )
       => req'[r2].plan = req[r1].plan]_vars

\* C33: handling the same order_paid event twice in a row leaves the user's
\* info.pay and info.delta equal to what they were after the first handling.
C33_DuplicateIdempotent ==
  \A r1, r2 \in Reqs :
    ( /\ Done(r1) /\ Done(r2)
      /\ req[r1].op = "order_paid" /\ req[r2].op = "order_paid"
      /\ req[r1].meta = req[r2].meta
      /\ req[r1].resp = "code0" /\ req[r2].resp = "code0"
      /\ r1 \in req[r2].prior )
    => /\ req[r2].ret.user.info.pay = req[r1].ret.user.info.pay
       /\ req[r2].ret.user.info.delta = req[r1].ret.user.info.delta

\* C34: a user's info.pay and info.delta change only in a handleOrderPaid
\* step for that uid; the user-facing update operations never change them.
C34_PaymentsOnly ==
  [][\A u \in users, v \in users' :
       (v.uid = u.uid /\ (v.info.pay # u.info.pay \/ v.info.delta # u.info.delta))
       => \E r \in Reqs : /\ req[r].op = "order_paid" /\ req[r].uid = u.uid
                          /\ req[r].pc = "info_write" /\ req'[r].pc = "done"]_vars

\* C35: no login path mints a token for a uid whose row has status 0.
C35_NoSessionForDeleted ==
  [][\A r \in Reqs :
       (~req[r].token.minted /\ req'[r].token.minted /\ req'[r].token.hasUid)
       => \A u \in users' : u.uid = req'[r].token.uid => u.status = 1]_vars

\* C36: whenever handleOTT returns a user for a payload with email e, that
\* user's email is e, whatever uid the calling request carries.
C36_BoundToPayload ==
  \A r \in Reqs :
    (IsOTTLogin(r) /\ req[r].ret.kind = "user" /\ req[r].got.kind = "value")
    => req[r].ret.user.email = req[r].got.value.email

\* C37: every session token minted by the login route carries the uid of a
\* row of the users table; none is minted with an absent uid.
C37_TokenHasUser ==
  \A r \in Reqs :
    (req[r].op \in {"login_ott", "login_pw"} /\ req[r].token.minted)
    => /\ req[r].token.hasUid
       /\ \E u \in users : u.uid = req[r].token.uid

\* the UPDATE of updatePassword by request r
PwStep(r) == req[r].pc = "pw_write" /\ req'[r].pc = "done"
\* a step in which updatePassword of request r throws
PwFails(r) ==
  /\ req[r].pc \in {"idle", "pw_read"} /\ req'[r].op = "password"
  /\ req'[r].pc = "done" /\ req'[r].ret.kind = "throw"
\* a step of updatePassword in which it must fail: an empty argument at the
\* call, no row or an old password that does not verify at the SELECT
PwMustFail(r) ==
  \/ /\ req[r].pc = "idle" /\ req'[r].op = "password"
     /\ (Falsy(req'[r].password) \/ Falsy(req'[r].finalPassword))
  \/ /\ req[r].pc = "pw_read" /\ req'[r].pc # "pw_read"
     /\ \A u \in users : u.uid = req[r].uid => ~verifyPassword(req[r].password, u.pass)

\* C38: updatePassword(uid, old, new): when old verifies against the stored
\* hash, afterwards new verifies and old (if different from new) does not,
\* and no other column changes; when old does not verify, or the uid does not
\* exist, or either argument is empty, it fails and the stored hash is
\* unchanged.
C38_PasswordChange ==
  [][\A r \in Reqs :
       /\ PwStep(r) =>
            \A u \in users : u.uid = req[r].uid =>
              \E v \in users' :
                /\ v = [u EXCEPT !.pass = v.pass]
                /\ verifyPassword(req[r].finalPassword, v.pass)
                /\ (req[r].password # req[r].finalPassword
                      => ~verifyPassword(req[r].password, v.pass))
       /\ PwMustFail(r) => PwFails(r)
       /\ PwFails(r) => users' = users]_vars

\* C38 with updated_at, which the table's update trigger sets, left out of
\* the unchanged columns.
C38_PasswordChangeStamped ==
  [][\A r \in Reqs :
       /\ PwStep(r) =>
            \A u \in users : u.uid = req[r].uid =>
              \E v \in users' :
                /\ v = [u EXCEPT !.pass = v.pass, !.updated_at = now]
                /\ verifyPassword(req[r].finalPassword, v.pass)
                /\ (req[r].password # req[r].finalPassword
                      => ~verifyPassword(req[r].password, v.pass))
                /\ users' = (users \ {u}) \cup {v}
       /\ PwMustFail(r) => PwFails(r)
       /\ PwFails(r) => users' = users]_vars

\* a password was changed: the new one verifies, the old one no longer does;
\* and a change with a wrong old password was refused
C38_Witness ==
  \E r, q \in Reqs :
    /\ Done(r) /\ req[r].op = "password" /\ req[r].ret.kind = "true"
    /\ \E u \in users :
         /\ u.uid = req[r].uid /\ u.pass = req[r].hash
         /\ verifyPassword(req[r].finalPassword, u.pass)
         /\ ~verifyPassword(req[r].password, u.pass)
    /\ Done(q) /\ req[q].op = "password" /\ req[q].resp = "internal-server-error"
    /\ req[q].hash = NoPass /\ ~Falsy(req[q].finalPassword)
    /\ \E u \in users : u.uid = req[q].uid

\* C39: DB.transaction ends every run with exactly one of COMMIT (the
\* callback returned) or ROLLBACK (BEGIN, the callback or COMMIT threw, and
\* the error is rethrown), and releases the checked-out client exactly once
\* in both cases, so no client stays checked out after it returns or throws.
C39_TransactionEnds ==
  \A r \in Reqs :
    (Done(r) /\ req[r].op = "transaction" /\ req[r].tx.client # "none")
    => /\ req[r].tx.client = "released" /\ req[r].tx.releases = 1
       /\ \/ req[r].tx.last = "COMMIT" /\ req[r].ret.kind = "true"
          \/ /\ req[r].tx.last = "ROLLBACK" /\ req[r].ret.kind = "throw"
             /\ req[r].tx.caught \in {"begin-error", "callback-error", "commit-error"}
             /\ req[r].ret.err = req[r].tx.caught

====
